---- MODULE Spec2Model ----
(***************************************************************************)
(* ExoVision "AI services": a model of src/src/ai-services/                *)
(* ExoplanetClassifier.js.                                                 *)
(*                                                                         *)
(* Numbers.  A JavaScript number that a planet record carries is held in   *)
(* hundredths (mass 1.5 is 150, temperature 288 is 28800, ai_confidence    *)
(* 0.9 is 90).  Base scores and the final probabilities are held in units  *)
(* of 1e-4, the confidence in units of 1e-3.  The intermediate             *)
(* probabilities (division by the sum, the ai_confidence bias, the         *)
(* logistic calibration) are fixed-point fractions of FixedOne, small      *)
(* enough for every product to stay inside TLC's 32-bit integers.          *)
(*                                                                         *)
(* Strings.  A JavaScript string is a sequence of one-character strings,   *)
(* so that concatenation, toLowerCase and includes are computed.           *)
(***************************************************************************)
EXTENDS Integers, Sequences, FiniteSets, TLC

\* ------------------------------------------------------------------ bounds
\* calls (loadModel, classifyPlanet, classifyBatch) issued in one behaviour
MaxCalls == 2
\* clearCache() calls in one behaviour
MaxClears == 1
\* assignments callers make to results they were given, in one behaviour
MaxWrites == 1
\* the unit of the fixed-point fractions
FixedOne == 32768

\* ------------------------------------------------------- JavaScript values
Undef == [t |-> "undefined", n |-> 0, s |-> <<>>]
Null == [t |-> "null", n |-> 0, s |-> <<>>]
NaN == [t |-> "NaN", n |-> 0, s |-> <<>>]
Num(h) == [t |-> "number", n |-> h, s |-> <<>>]
Str(chars) == [t |-> "string", n |-> 0, s |-> chars]

\* ToBoolean: undefined, null, NaN, 0 and "" are falsy
Truthy(v) ==
  CASE v.t = "number" -> v.n # 0
    [] v.t = "string" -> v.s # <<>>
    [] OTHER -> FALSE

\* F applied to the value of e, with e evaluated once
Bind(e, F(_)) == CHOOSE y \in {F(v) : v \in {e}} : TRUE
\* the sequence <<F(1), ..., F(n)>>, each element evaluated once
RECURSIVE Tabulate(_, _)
Tabulate(F(_), n) == IF n = 0 THEN <<>> ELSE Append(Tabulate(F, n - 1), F(n))

Abs(x) == IF x < 0 THEN -x ELSE x
Max(a, b) == IF a >= b THEN a ELSE b
Min(a, b) == IF a <= b THEN a ELSE b

Digits == <<"0", "1", "2", "3", "4", "5", "6", "7", "8", "9">>
IsDigit(c) == \E i \in 1..10 : Digits[i] = c
DigitVal(c) == (CHOOSE i \in 1..10 : Digits[i] = c) - 1

RECURSIVE NatToChars(_)
NatToChars(k) ==
  IF k < 10 THEN <<Digits[k + 1]>>
  ELSE NatToChars(k \div 10) \o <<Digits[(k % 10) + 1]>>

\* Number.prototype.toString of a number held in hundredths: 100 is "1",
\* 150 is "1.5", 105 is "1.05", -250 is "-2.5"
NumToChars(h) ==
  LET a == Abs(h)
      whole == NatToChars(a \div 100)
      frac == a % 100
      tail == IF frac = 0 THEN <<>>
              ELSE IF frac % 10 = 0 THEN <<".", Digits[(frac \div 10) + 1]>>
              ELSE <<".", Digits[(frac \div 10) + 1], Digits[(frac % 10) + 1]>>
  IN (IF h < 0 THEN <<"-">> ELSE <<>>) \o whole \o tail

\* String(v), as a template literal `${v}` computes it
ToChars(v) ==
  CASE v.t = "string" -> v.s
    [] v.t = "number" -> NumToChars(v.n)
    [] v.t = "undefined" -> <<"u", "n", "d", "e", "f", "i", "n", "e", "d">>
    [] v.t = "null" -> <<"n", "u", "l", "l">>
    [] OTHER -> <<"N", "a", "N">>

RECURSIVE DigitsValue(_)
DigitsValue(chars) ==
  IF chars = <<>> THEN 0
  ELSE 10 * DigitsValue(SubSeq(chars, 1, Len(chars) - 1)) + DigitVal(chars[Len(chars)])

AllDigits(chars) == \A i \in 1..Len(chars) : IsDigit(chars[i])

\* the StringToNumber part of Number(v): "" is 0, an unsigned decimal literal
\* with at most two fraction digits is its value, anything else is NaN
ParseChars(chars) ==
  LET dots == {i \in 1..Len(chars) : chars[i] = "."}
  IN IF chars = <<>> THEN Num(0)
     ELSE IF dots = {} THEN
       IF AllDigits(chars) THEN Num(100 * DigitsValue(chars)) ELSE NaN
     ELSE IF Cardinality(dots) > 1 THEN NaN
     ELSE LET d == CHOOSE i \in dots : TRUE
              whole == SubSeq(chars, 1, d - 1)
              frac == SubSeq(chars, d + 1, Len(chars))
          IN IF ~AllDigits(whole) \/ ~AllDigits(frac) \/ Len(frac) > 2
                \/ (whole = <<>> /\ frac = <<>>)
             THEN NaN
             ELSE Num(100 * DigitsValue(whole)
                      + (IF Len(frac) = 1 THEN 10 * DigitsValue(frac)
                         ELSE DigitsValue(frac)))

\* Number(v)
ToNumber(v) ==
  CASE v.t = "number" -> v
    [] v.t = "string" -> ParseChars(v.s)
    [] v.t = "null" -> Num(0)
    [] OTHER -> NaN

\* Number(v) || d
NumberOr(v, d) == LET x == ToNumber(v) IN IF Truthy(x) THEN x.n ELSE d

UpperLetters == <<"A", "B", "C", "D", "E", "F", "G", "H", "I", "J", "K", "L", "M",
                  "N", "O", "P", "Q", "R", "S", "T", "U", "V", "W", "X", "Y", "Z">>
LowerLetters == <<"a", "b", "c", "d", "e", "f", "g", "h", "i", "j", "k", "l", "m",
                  "n", "o", "p", "q", "r", "s", "t", "u", "v", "w", "x", "y", "z">>
LowerChar(c) ==
  IF \E i \in 1..26 : UpperLetters[i] = c
  THEN LowerLetters[CHOOSE i \in 1..26 : UpperLetters[i] = c]
  ELSE c
\* String.prototype.toLowerCase
ToLowerCase(chars) == [i \in 1..Len(chars) |-> LowerChar(chars[i])]
\* String.prototype.includes
Includes(chars, sub) ==
  \E i \in 1..(Len(chars) - Len(sub) + 1) : SubSeq(chars, i, i + Len(sub) - 1) = sub

\* ------------------------------------------------------------ planet records
\* A planet argument is null or an object; a field the object lacks is Undef.
PlanetFields == {"name", "mass", "radius", "temperature", "orbital_period",
                 "distance", "atmosphere", "follow_up_observations", "ai_confidence"}
NullPlanet == [f \in PlanetFields |-> Null] @@ [isNull |-> TRUE]
Planet(name, mass, radius, temperature, period, distance, atmosphere, follow, ai) ==
  [isNull |-> FALSE, name |-> name, mass |-> mass, radius |-> radius,
   temperature |-> temperature, orbital_period |-> period, distance |-> distance,
   atmosphere |-> atmosphere, follow_up_observations |-> follow, ai_confidence |-> ai]
\* classifyPlanet() and classifyPlanet(undefined) take the default argument {}
EmptyPlanet == Planet(Undef, Undef, Undef, Undef, Undef, Undef, Undef, Undef, Undef)

Bar == <<"|">>
\* _hashPlanet
HashPlanet(planet) ==
  IF planet.isNull THEN ToChars(Null)
  ELSE (IF Truthy(planet.name) THEN ToChars(planet.name)
        ELSE <<"u", "n", "k", "n", "o", "w", "n">>)
       \o Bar \o ToChars(planet.mass)
       \o Bar \o ToChars(planet.radius)
       \o Bar \o ToChars(planet.temperature)
       \o Bar \o (IF Truthy(planet.atmosphere) THEN ToChars(planet.atmosphere)
                  ELSE <<"n", "a">>)

UnknownChars == <<"U", "n", "k", "n", "o", "w", "n">>
\* _featureVector (the planet is an object)
FeatureVector(planet) ==
  [mass |-> NumberOr(planet.mass, 100),
   radius |-> NumberOr(planet.radius, 100),
   temperature |-> NumberOr(planet.temperature, 28800),
   orbital_period |-> NumberOr(planet.orbital_period, 36500),
   distance |-> NumberOr(planet.distance, 10000),
   atmosphere |-> IF Truthy(planet.atmosphere) /\ planet.atmosphere # Str(UnknownChars)
                  THEN 1 ELSE 0,
   follow_up |-> NumberOr(planet.follow_up_observations, 0),
   ai_confidence |-> NumberOr(planet.ai_confidence, 75)]

\* ------------------------------------------------------------------ scoring
\* the keys of the `base` object literal of classifyPlanet, in insertion order
BaseLabels == <<"Terrestrial", "Super Earth", "Mini-Neptune", "Gas Giant", "Hot Jupiter",
                "Ice Giant", "Puffy Planet", "Ocean World", "Desert World">>
NLabels == Len(BaseLabels)
\* the constructor's default for this.labels, weights (in hundredths) and calibration
DefaultLabels == BaseLabels
DefaultWeights == [temperature |-> 35, mass |-> 25, distance |-> 20, atmosphere |-> 15,
                   other |-> 5]
DefaultCalibration == [a |-> 100, b |-> 0]

RECURSIVE SumSeq(_)
SumSeq(q) == IF q = <<>> THEN 0 ELSE q[1] + SumSeq(Tail(q))

\* a / b rounded toward zero, b > 0
DivTrunc(a, b) == IF a >= 0 THEN a \div b ELSE -((-a) \div b)
\* a / b rounded to the nearest integer, halves away from zero, b > 0 (toFixed)
DivRound(a, b) == IF a >= 0 THEN (2 * a + b) \div (2 * b) ELSE -((2 * (-a) + b) \div (2 * b))

\* the atmosphere test of the 'Ocean World' score:
\* planet.atmosphere && planet.atmosphere.toLowerCase().includes('h2o')
HasWater(planet) ==
  Truthy(planet.atmosphere) /\ Includes(ToLowerCase(planet.atmosphere.s), <<"h", "2", "o">>)

\* the `base` scores, in units of 1e-4, from the feature vector f
BaseScores(planet, f) ==
  << Max(0, 6000 - Abs(f.mass - 100) * 12 - Abs(f.radius - 100) * 8),
     Max(0, 2500 + (IF f.mass > 150 THEN 1500 ELSE 0) + (IF f.radius > 120 THEN 1000 ELSE 0)),
     Max(0, 1200 + (IF f.radius > 180 THEN 1200 ELSE 0)),
     Max(0, (IF f.mass > 1500 THEN 7000 ELSE 500) + (IF f.radius > 300 THEN 2000 ELSE 0)),
     Max(0, IF f.orbital_period < 1000 THEN 4000 ELSE 100),
     Max(0, IF f.temperature < 18000 THEN 2500 ELSE 100),
     Max(0, IF f.mass < 1000 /\ f.radius > 600 THEN 2000 ELSE 100),
     Max(0, IF HasWater(planet) THEN 3500 ELSE 200),
     Max(0, IF f.temperature > 40000 THEN 2000 ELSE 200) >>

\* x || 1 on a sum
OrOne(x) == IF x = 0 THEN 1 ELSE x

\* e^z for a fixed-point z: the Taylor series, summed until a term vanishes
RECURSIVE ExpSeries(_, _, _)
ExpSeries(z, n, term) ==
  IF term = 0 THEN 0
  ELSE term + Bind(DivTrunc(term * z, n * FixedOne), LAMBDA next : ExpSeries(z, n + 1, next))
ExpFix(z) == ExpSeries(z, 1, FixedOne)

\* the clamp bound 1e-6 of _calibrate, as a fixed-point fraction
ClampEps == FixedOne \div 1000000
\* the logistic with the sign of z turned: 1 / (1 + exp(z))
CalibrateInverted(cal, prob) ==
  LET x == Max(ClampEps, Min(FixedOne - ClampEps, prob))
      z == DivTrunc(cal.a * (x - FixedOne \div 2), 100) + DivTrunc(cal.b * FixedOne, 100)
  IN Bind(z, LAMBDA y : (FixedOne * FixedOne) \div (FixedOne + ExpFix(y)))
\* _calibrate: prob a fixed-point fraction, cal = {a, b} in hundredths
Calibrate(cal, prob) ==
  LET x == Max(ClampEps, Min(FixedOne - ClampEps, prob))
      z == DivTrunc(cal.a * (x - FixedOne \div 2), 100) + DivTrunc(cal.b * FixedOne, 100)
  IN Bind(-z, LAMBDA y : (FixedOne * FixedOne) \div (FixedOne + ExpFix(y)))

\* probsRaw[k] * (0.6 + 0.4 * f.ai_confidence), then _calibrate
Smoothed(cal, base, f) ==
  Bind(OrOne(SumSeq(base)), LAMBDA sum :
    Tabulate(LAMBDA k :
               Calibrate(cal, DivTrunc(((base[k] * FixedOne) \div sum)
                                       * (6000 + 40 * f.ai_confidence), 10000)),
             NLabels))

\* the smoothed values rounded as they are, not divided by their sum
Unnormalized(sm) == Tabulate(LAMBDA k : DivRound(sm[k] * 10000, FixedOne), NLabels)

\* the second normalisation: +(smoothed[k] / s2).toFixed(4), in units of 1e-4
Normalized(sm) ==
  Bind(OrOne(SumSeq(sm)), LAMBDA s2 :
    Tabulate(LAMBDA k : DivRound(sm[k] * 10000, s2), NLabels))

\* a descending sort that puts the later of two equal labels first
RankTiesLast(p, k) ==
  Cardinality({j \in 1..NLabels : p[j] > p[k]})
  + Cardinality({j \in (k + 1)..NLabels : p[j] = p[k]}) + 1
\* Object.entries(smoothed).sort((a,b) => b[1]-a[1]): the position of label k
\* in the stable descending sort
Rank(p, k) ==
  Cardinality({j \in 1..NLabels : p[j] > p[k]})
  + Cardinality({j \in 1..(k - 1) : p[j] = p[k]}) + 1
Entries(p) == Tabulate(LAMBDA r : CHOOSE k \in 1..NLabels : Rank(p, k) = r, NLabels)

\* the confidence without Math.min(0.999, .)
ConfidenceUncapped(top, ai) == 450000 + top * 45 + (ai - 70) * 2500
\* Math.min(0.999, 0.45 + top*0.45 + (ai - 0.7)*0.25) in units of 1e-6
ConfidenceRaw(top, ai) == Min(999000, 450000 + top * 45 + (ai - 70) * 2500)
\* +(confidence.toFixed(3)), in units of 1e-3
Confidence(top, ai) == DivRound(ConfidenceRaw(top, ai), 1000)

\* what stops classifyPlanet on a cache miss: _featureVector reads a field of
\* null; toLowerCase is not a function of a truthy atmosphere that is no string
Throws(planet) ==
  planet.isNull \/ (Truthy(planet.atmosphere) /\ planet.atmosphere.t # "string")

\* the result object classifyPlanet builds on a cache miss.  The importances
\* of the explanation are left out: they are a function of `features` alone.
Classify(cal, lbls, planet) ==
  Bind(FeatureVector(planet), LAMBDA f :
    Bind(BaseScores(planet, f), LAMBDA base :
      Bind(Smoothed(cal, base, f), LAMBDA sm :
        Bind(Normalized(sm), LAMBDA p :
          Bind(Entries(p), LAMBDA e :
            [predictedType |-> BaseLabels[e[1]],
             probabilities |-> p,
             confidence |-> Confidence(p[e[1]], f.ai_confidence),
             explanation |-> [features |-> f,
                              topFactors |-> <<[label |-> BaseLabels[e[1]], prob |-> p[e[1]]],
                                               [label |-> BaseLabels[e[2]], prob |-> p[e[2]]],
                                               [label |-> BaseLabels[e[3]], prob |-> p[e[3]]]>>],
             modelMeta |-> [engine |-> "heuristic-sim-v2", labels |-> lbls]])))))

\* ------------------------------------------------------------ sample inputs
EarthName == Str(<<"E", "a", "r", "t", "h">>)
N2O2 == Str(<<"N", "2", "/", "O", "2">>)
\* an Earth-like record
Earth == Planet(EarthName, Num(100), Num(100), Num(28800), Num(36500), Num(5000), N2O2,
                Undef, Num(90))
\* the same name, mass, radius, temperature and atmosphere as Earth, another
\* orbital_period, distance, follow_up_observations and ai_confidence
EarthTwin == Planet(EarthName, Num(100), Num(100), Num(28800), Num(500), Num(80000), N2O2,
                    Num(12), Num(50))
HotGiant == Planet(Str(<<"H", "G">>), Num(2000), Num(400), Num(120000), Num(300),
                   Num(60000), Str(<<"H", "2", "O", "/", "C", "O", "2">>), Num(3), Num(60))
\* the planet arguments of the calls of Spec
SamplePlanets == <<Earth, EarthTwin, NullPlanet, HotGiant>>
PlanetIds == 1..Len(SamplePlanets)

\* the classifyBatch arguments: the empty list, a duplicate, the two planets
\* of one fingerprint, a null element before a planet
SampleBatches == {<<>>, <<1, 1>>, <<1, 2>>, <<3, 1>>}

\* -------------------------------------------------------------------- state
VARIABLES
  modelLoaded,   \* this.modelLoaded
  calibration,   \* this.calibration
  labels,        \* this.labels
  weights,       \* this.weights
  cache,         \* this.cache: fingerprint -> reference to a result object
  heap,          \* the result objects classifyPlanet has built, by reference
  calls,         \* the calls issued so far, each with its position
  origin,        \* history: for each result object, what it was computed from
  epoch,         \* history: the number of clearCache() calls so far
  writes,        \* history: the number of assignments callers made to results
  fnPlanet,      \* SpecClassify: the planet argument
  fnPc,          \* SpecClassify: "call", then "returned" or "threw"
  fnResult,      \* SpecClassify: the result object built
  minSnrForDetection,  \* SpectroscopyAI: this.minSnrForDetection
  smoothingWindow,     \* SpectroscopyAI: this.smoothingWindow
  spSamples,     \* analyzeSpectrum: the spectralData argument
  spPlanet,      \* analyzeSpectrum: the planet argument
  spPc,          \* analyzeSpectrum: "idle", "timer" (awaiting), "returned"
  spResult,      \* analyzeSpectrum: the result returned
  paPlanet,      \* PredictiveAnalytics: the planet argument
  paPc,          \* PredictiveAnalytics: "idle", "call", "returned", "threw"
  paScore,       \* calculatePriorityScore: the score returned, in thousandths
  paPrev,        \* calculatePriorityScore: the call before, [planet, score]
  paPlan,        \* recommendObservationPlan: the plan returned
  timeWindowYears,  \* PredictiveAnalytics: this.timeWindowYears
  trendSmoothing,   \* PredictiveAnalytics: this.trendSmoothing, in hundredths
  clockYear,     \* environment: new Date().getFullYear()
  paPlanets,     \* analyzeDiscoveryPatterns: the planets argument
  paPatterns,    \* analyzeDiscoveryPatterns: the result returned
  storeFails     \* environment: Map.prototype.set of the cache raises

options == <<calibration, labels, weights>>
history == <<origin, epoch, writes>>
fn == <<fnPlanet, fnPc, fnResult>>
spectro == <<minSnrForDetection, smoothingWindow, spSamples, spPlanet, spPc, spResult>>
patterns == <<timeWindowYears, trendSmoothing, clockYear, paPlanets, paPatterns>>
analytics == <<paPlanet, paPc, paScore, paPrev, paPlan, patterns>>
vars == <<modelLoaded, calibration, labels, weights, cache, heap, calls, origin, epoch,
          writes, fnPlanet, fnPc, fnResult,
          minSnrForDetection, smoothingWindow, spSamples, spPlanet, spPc, spResult,
          paPlanet, paPc, paScore, paPrev, paPlan, timeWindowYears, trendSmoothing,
          clockYear, paPlanets, paPatterns, storeFails>>

\* new Map()
EmptyCache == <<>>
\* a lookup that never finds a key
CacheHasNot(c, key) == FALSE
\* Map.prototype.has
CacheHas(c, key) == key \in DOMAIN c
\* Map.prototype.set
CacheSet(c, key, ref) == [k \in DOMAIN c \cup {key} |-> IF k = key THEN ref ELSE c[k]]
\* a clearCache that leaves the entries in place
CacheKept(c) == c
\* this.cache.clear()
CacheAfterClear(c) == EmptyCache

\* loadModel without its early return
NoEarlyReturn == FALSE
\* classifyPlanet without its `await this.loadModel()`
NeverAwaits == FALSE
\* `if (this.modelLoaded) return true` of loadModel
LoadModelReturnsAtOnce == modelLoaded
\* `if (!this.modelLoaded) await this.loadModel()` of classifyPlanet, classifyBatch
AwaitsLoadModel == ~modelLoaded

NoResult == [predictedType |-> "none"]

\* new ExoplanetClassifier(): the fields the constructor sets
Constructed ==
  /\ modelLoaded = FALSE
  /\ labels = DefaultLabels
  /\ weights = DefaultWeights
  /\ cache = EmptyCache
  /\ heap = <<>>
  /\ calls = <<>>
  /\ origin = <<>>
  /\ epoch = 0
  /\ writes = 0

\* no classifyPlanet call of SpecClassify
FnIdle ==
  /\ fnPlanet = EmptyPlanet
  /\ fnPc = "idle"
  /\ fnResult = NoResult

\* SpectroscopyAI constructor: the default options
DefaultMinSnr == 8
DefaultSmoothingWindow == 7
\* new SpectroscopyAI(), no analyzeSpectrum call yet
SpectroIdle ==
  /\ minSnrForDetection = DefaultMinSnr
  /\ smoothingWindow = DefaultSmoothingWindow
  /\ spSamples = [t |-> "array", pts |-> <<>>]
  /\ spPlanet = EmptyPlanet
  /\ spPc = "idle"
  /\ spResult = NoResult

\* the Map of the cache is the built-in one: set does not raise
StoreWorks == storeFails = FALSE

\* the year of the wall clock when the page is opened
ClockStart == 2023

\* new PredictiveAnalytics(): the options of the constructor, and no call
\* of analyzeDiscoveryPatterns yet
PatternsIdle ==
  /\ timeWindowYears = 10
  /\ trendSmoothing = 60
  /\ clockYear = ClockStart
  /\ paPlanets = <<>>
  /\ paPatterns = NoResult

\* new PredictiveAnalytics(), no call yet
AnalyticsIdle ==
  /\ PatternsIdle
  /\ paPlanet = EmptyPlanet
  /\ paPc = "idle"
  /\ paScore = 0
  /\ paPrev = [none |-> TRUE]
  /\ paPlan = NoResult

\* new ExoplanetClassifier(), as App.jsx constructs it
Init ==
  /\ Constructed
  /\ calibration = DefaultCalibration
  /\ FnIdle
  /\ SpectroIdle
  /\ AnalyticsIdle
  /\ StoreWorks

\* the result objects of the sample planets under the constructor's default
\* options, computed once
DefaultResults ==
  [pid \in PlanetIds |-> Classify(DefaultCalibration, DefaultLabels, SamplePlanets[pid])]
SampleKeys == [pid \in PlanetIds |-> HashPlanet(SamplePlanets[pid])]
\* the result object classifyPlanet builds for sample planet pid
ResultFor(pid) ==
  IF calibration = DefaultCalibration /\ labels = DefaultLabels
  THEN DefaultResults[pid]
  ELSE Classify(calibration, labels, SamplePlanets[pid])

\* a cache.set that writes its entry before it raises
CacheSetAnyway(c, key, ref) == CacheSet(c, key, ref)
\* try { this.cache.set(key, result); } catch(e) { /* ignore */ }
TryCacheSet(c, key, ref) == IF storeFails THEN c ELSE CacheSet(c, key, ref)

\* The body of classifyPlanet after its first line, run without interruption
\* (it holds no await before the cache write) on the memory
\* mem = [cache, heap, origin]: the outcome for the caller and the new memory.
\*   done     a hit: the cached reference is returned at once
\*   rejected an exception ends the call
\*   delay    the result is built and cached; the call waits for its 25 ms timer
\* `at` records the number of clearCache() calls before the cache lookup,
\* `stored` whether cache.set returned.
ClassifyBody(mem, pid) ==
  LET planet == SamplePlanets[pid]
      key == SampleKeys[pid]
  IN IF CacheHas(mem.cache, key)
     THEN [mem |-> mem,
           item |-> [pc |-> "done", ret |-> mem.cache[key], hit |-> TRUE, at |-> epoch,
                     stored |-> FALSE]]
     ELSE IF Throws(planet)
     THEN [mem |-> mem,
           item |-> [pc |-> "rejected", ret |-> 0, hit |-> FALSE, at |-> epoch,
                     stored |-> FALSE]]
     ELSE LET ref == Len(mem.heap) + 1
          IN [mem |-> [cache |-> TryCacheSet(mem.cache, key, ref),
                       heap |-> Append(mem.heap, ResultFor(pid)),
                       origin |-> Append(mem.origin,
                                         [key |-> key, epoch |-> epoch, planet |-> pid])],
              item |-> [pc |-> "delay", ret |-> ref, hit |-> FALSE, at |-> epoch,
                        stored |-> ~storeFails]]

\* planets.map(p => this.classifyPlanet(p)) with modelLoaded true: the bodies
\* run one after the other, each up to its return, throw or 25 ms await
RECURSIVE MapClassify(_, _)
MapClassify(mem, pids) ==
  IF pids = <<>> THEN [mem |-> mem, items |-> <<>>]
  ELSE Bind(ClassifyBody(mem, Head(pids)), LAMBDA first :
         Bind(MapClassify(first.mem, Tail(pids)), LAMBDA rest :
           [mem |-> rest.mem, items |-> <<first.item>> \o rest.items]))

\* a promise that is rejected with its first rejected item and never fulfilled
PromisePending(items) ==
  IF \E i \in 1..Len(items) : items[i].pc = "rejected" THEN "rejected" ELSE "running"
\* the state of the promise a call returned, from the states of its items:
\* classifyPlanet's own promise, or Promise.all of classifyBatch
PromiseOf(items) ==
  IF \E i \in 1..Len(items) : items[i].pc = "rejected" THEN "rejected"
  ELSE IF \A i \in 1..Len(items) : items[i].pc = "done" THEN "done"
  ELSE "running"

\* an array of the values in the order the promises settled, the position
\* left out: here the later half before the earlier
PromiseAllSwapped(items) ==
  [i \in 1..Len(items) |-> items[((i + (Len(items) \div 2) - 1) % Len(items)) + 1].ret]
\* the value of Promise.all(promises): the value of each promise at the
\* position of the promise
PromiseAll(items) == [i \in 1..Len(items) |-> items[i].ret]
\* what the promise of a call is fulfilled with: the results of its
\* classifyPlanet bodies (one for classifyPlanet itself), nothing before
Fulfilled(items) == IF PromiseOf(items) = "done" THEN PromiseAll(items) ELSE <<>>

\* a call that waits for the loadingDelayMs timer of its loadModel
Waiting(op, pids) ==
  [op |-> op, planets |-> pids, items |-> <<>>, pc |-> "awaitLoad", ret |-> FALSE,
   waited |-> TRUE, value |-> <<>>]

\* a classifyPlanet / classifyBatch call whose bodies ran: its record and the
\* new memory
Ran(op, pids, waited) ==
  Bind(MapClassify([cache |-> cache, heap |-> heap, origin |-> origin], pids), LAMBDA r :
    [mem |-> r.mem,
     call |-> [op |-> op, planets |-> pids, items |-> r.items, pc |-> PromiseOf(r.items),
               ret |-> FALSE, waited |-> waited, value |-> Fulfilled(r.items)]])

\* loadModel() called from outside
CallLoadModel ==
  /\ Len(calls) < MaxCalls
  /\ calls' = Append(calls,
                     IF LoadModelReturnsAtOnce
                     THEN [Waiting("loadModel", <<>>) EXCEPT !.pc = "done", !.ret = TRUE,
                                                             !.waited = FALSE]
                     ELSE Waiting("loadModel", <<>>))
  /\ UNCHANGED <<modelLoaded, options, storeFails, cache, heap, history, fn, spectro, analytics>>

\* classifyPlanet(p) or classifyBatch(ps) called: up to the first await
Issue(op, pids) ==
  /\ Len(calls) < MaxCalls
  /\ IF AwaitsLoadModel
     THEN /\ calls' = Append(calls, Waiting(op, pids))
          /\ UNCHANGED <<cache, heap, origin>>
     ELSE \E r \in {Ran(op, pids, FALSE)} :
             /\ calls' = Append(calls, r.call)
             /\ cache' = r.mem.cache
             /\ heap' = r.mem.heap
             /\ origin' = r.mem.origin
  /\ UNCHANGED <<modelLoaded, options, storeFails, epoch, writes, fn, spectro, analytics>>

CallClassifyPlanet == \E pid \in PlanetIds : Issue("classifyPlanet", <<pid>>)
CallClassifyBatch == \E pids \in SampleBatches : Issue("classifyBatch", pids)

\* the loadingDelayMs timer of a loadModel fires: loadModel sets modelLoaded
\* and returns true, and the classifyPlanet / classifyBatch awaiting it goes on
\* in the same turn of the event loop
LoadTimer ==
  \E c \in 1..Len(calls) :
    /\ calls[c].pc = "awaitLoad"
    /\ modelLoaded' = TRUE
    /\ IF calls[c].op = "loadModel"
       THEN /\ calls' = [calls EXCEPT ![c].pc = "done", ![c].ret = TRUE]
            /\ UNCHANGED <<cache, heap, origin>>
       ELSE \E r \in {Ran(calls[c].op, calls[c].planets, TRUE)} :
               /\ calls' = [calls EXCEPT ![c] = r.call]
               /\ cache' = r.mem.cache
               /\ heap' = r.mem.heap
               /\ origin' = r.mem.origin
    /\ UNCHANGED <<options, storeFails, epoch, writes, fn, spectro, analytics>>

\* a classifyPlanet that caches its result after the 25 ms await
DelayTimerWrites ==
  \E c \in 1..Len(calls) : \E i \in 1..Len(calls[c].items) :
    /\ calls[c].items[i].pc = "delay"
    /\ \E items \in {[calls[c].items EXCEPT ![i].pc = "done"]} :
         calls' = [calls EXCEPT ![c].items = items, ![c].pc = PromiseOf(items),
                                ![c].value = Fulfilled(items)]
    /\ cache' = CacheSet(cache, SampleKeys[calls[c].planets[i]], calls[c].items[i].ret)
    /\ UNCHANGED <<modelLoaded, options, storeFails, heap, history, fn, spectro, analytics>>
\* the 25 ms timer of one classifyPlanet fires: it returns its result
DelayTimer ==
  \E c \in 1..Len(calls) : \E i \in 1..Len(calls[c].items) :
    /\ calls[c].items[i].pc = "delay"
    /\ \E items \in {[calls[c].items EXCEPT ![i].pc = "done"]} :
         calls' = [calls EXCEPT ![c].items = items, ![c].pc = PromiseOf(items),
                                ![c].value = Fulfilled(items)]
    /\ UNCHANGED <<modelLoaded, options, storeFails, cache, heap, history, fn, spectro, analytics>>

\* clearCache()
ClearCache ==
  /\ epoch < MaxClears
  /\ cache' = CacheAfterClear(cache)
  /\ epoch' = epoch + 1
  /\ UNCHANGED <<modelLoaded, options, storeFails, heap, calls, origin, writes, fn, spectro,
                 analytics>>

\* a caller assigns to a field of a result it was given:
\* result.predictedType = 'Edited'
CallerWrites ==
  \E c \in 1..Len(calls) : \E i \in 1..Len(calls[c].items) :
    /\ writes < MaxWrites
    /\ calls[c].pc = "done"
    /\ heap[calls[c].items[i].ret].predictedType # "Edited"
    /\ heap' = [heap EXCEPT ![calls[c].items[i].ret].predictedType = "Edited"]
    /\ writes' = writes + 1
    /\ UNCHANGED <<modelLoaded, options, storeFails, cache, calls, origin, epoch, fn, spectro,
                   analytics>>

Next ==
  \/ CallLoadModel
  \/ CallClassifyPlanet
  \/ CallClassifyBatch
  \/ LoadTimer
  \/ DelayTimer
  \/ ClearCache
  \/ CallerWrites

Spec == Init /\ [][Next]_vars

\* ------------------------------------------------------- properties of Spec
\* the classifyPlanet bodies that ran, as <<call, position>>
ItemIds == UNION {{<<c, i>> : i \in 1..Len(calls[c].items)} : c \in 1..Len(calls)}
Item(x) == calls[x[1]].items[x[2]]
ItemPlanet(x) == calls[x[1]].planets[x[2]]
ItemKey(x) == SampleKeys[ItemPlanet(x)]

\* C1: between two cache clears, of the classifyPlanet calls with one
\* fingerprint all but at most one find the result in the cache, and what
\* they find was computed for that fingerprint since the last clear.
C1_ComputedAtMostOnce ==
  /\ \A x \in ItemIds : \A y \in ItemIds :
       (x # y /\ ItemKey(x) = ItemKey(y) /\ Item(x).at = Item(y).at)
         => (Item(x).hit \/ Item(y).hit)
  /\ \A x \in ItemIds :
       Item(x).hit => /\ origin[Item(x).ret].key = ItemKey(x)
                      /\ origin[Item(x).ret].epoch = Item(x).at

\* C2: two classifyPlanet calls with the same fingerprint and no clearCache
\* between them are given the same result object; with a clearCache between
\* them the later one is given a newly computed object.
C2_CacheIdempotent ==
  \A x \in ItemIds : \A y \in ItemIds :
    (ItemKey(x) = ItemKey(y) /\ Item(x).ret # 0 /\ Item(y).ret # 0)
      => /\ (Item(x).ret = Item(y).ret) <=> (Item(x).at = Item(y).at)
         /\ origin[Item(x).ret].epoch = Item(x).at
\* one planet classified twice, the cache cleared, the planet classified again
C2_Witness ==
  \E x \in ItemIds : \E y \in ItemIds : \E z \in ItemIds :
    /\ x # y
    /\ ItemPlanet(x) = ItemPlanet(y) /\ ItemPlanet(y) = ItemPlanet(z)
    /\ Item(x).pc = "done" /\ Item(y).pc = "done" /\ Item(z).pc = "done"
    /\ Item(x).at = Item(y).at /\ Item(x).ret = Item(y).ret
    /\ Item(z).at > Item(x).at /\ Item(z).ret # Item(x).ret /\ ~Item(z).hit

\* C3: every element of a fulfilled classifyBatch is the result classifyPlanet
\* computes for the planet at that position.
C3_BatchEqualsSingle ==
  \A c \in 1..Len(calls) :
    (calls[c].op = "classifyBatch" /\ calls[c].pc = "done")
      => \A i \in 1..Len(calls[c].items) :
           ResultFor(origin[calls[c].items[i].ret].planet) = ResultFor(calls[c].planets[i])

\* C4: what a cache hit returns is the result as classifyPlanet computed it,
\* whatever callers did to the results they were given before.
C4_CallerOwnsResult ==
  \A x \in ItemIds :
    Item(x).hit => heap[Item(x).ret] = ResultFor(origin[Item(x).ret].planet)

\* C5: no classifyPlanet or classifyBatch call ends with an exception.
C5_NeverRaises == \A c \in 1..Len(calls) : calls[c].pc # "rejected"

\* C6: when the cache holds an entry, or a result object exists, or a
\* classifyPlanet body has run, modelLoaded is true.
C6_LoadedBeforeClassify ==
  (cache # EmptyCache \/ heap # <<>> \/ ItemIds # {}) => modelLoaded
\* a classifyPlanet that had to wait for the model has cached its result
C6_Witness ==
  /\ cache # EmptyCache
  /\ \E c \in 1..Len(calls) : calls[c].op = "classifyPlanet" /\ calls[c].waited

\* C7: modelLoaded never goes back to false, and a loadModel called with
\* modelLoaded true returns true at once and leaves the classifier as it was.
C7_LoadModelIdempotent ==
  [][/\ modelLoaded => modelLoaded'
     /\ (modelLoaded /\ Len(calls') > Len(calls) /\ calls'[Len(calls')].op = "loadModel")
          => /\ calls'[Len(calls')].pc = "done"
             /\ calls'[Len(calls')].ret = TRUE
             /\ UNCHANGED <<modelLoaded, options, cache, heap>>]_vars
\* a loadModel that returned true without waiting
C7_Witness ==
  \E c \in 1..Len(calls) :
    /\ calls[c].op = "loadModel" /\ ~calls[c].waited
    /\ calls[c].pc = "done" /\ calls[c].ret = TRUE

\* C8: clearCache empties the cache and changes neither modelLoaded nor the
\* calibration, the weights or the labels.
C8_ClearCacheFrame ==
  [][epoch' # epoch => /\ cache' = EmptyCache
                       /\ UNCHANGED <<modelLoaded, calibration, weights, labels>>]_vars
\* a cache that held a result has been cleared, the model stays loaded
C8_Witness ==
  /\ epoch > 0 /\ cache = EmptyCache /\ modelLoaded
  /\ \E r \in 1..Len(origin) : origin[r].epoch < epoch

\* ------------------------------------------- classifyPlanet as a function
\* The planet arguments of SpecClassify: null, and every object made of
\* these field values (the other fields as Earth has them).
FnMass == {Undef, Num(0), Num(100), Num(2000), Str(<<"2", ".", "5">>)}
FnRadius == {Undef, Num(100), Num(190), Num(700)}
FnTemperature == {Num(28800), Num(15000), Num(45000), Str(<<"h", "o", "t">>)}
FnPeriod == {Num(36500), Num(300)}
FnAtmosphere == {Undef, N2O2, Str(<<"H", "2", "O", "/", "C", "O", "2">>), Str(UnknownChars),
                 Num(42)}
FnConfidence == {Undef, Num(0), Num(1), Num(50), Num(90), Num(100), Num(300), Num(-200)}
FnPlanets ==
  {NullPlanet} \cup
  {Planet(EarthName, m, r, t, p, Num(5000), a, Undef, ai) :
     m \in FnMass, r \in FnRadius, t \in FnTemperature, p \in FnPeriod,
     a \in FnAtmosphere, ai \in FnConfidence}
\* the calibration options {a, b} of SpecClassify, in hundredths
Calibrations == {DefaultCalibration, [a |-> 200, b |-> 25]}

InitClassify ==
  /\ Constructed
  /\ calibration \in Calibrations
  /\ fnPlanet \in FnPlanets
  /\ fnPc = "call"
  /\ fnResult = NoResult
  /\ SpectroIdle
  /\ AnalyticsIdle
  /\ StoreWorks

\* classifyPlanet(fnPlanet) on a cache miss, from the cache lookup to the
\* result object or the exception
ClassifyOnce ==
  /\ fnPc = "call"
  /\ IF Throws(fnPlanet)
     THEN fnPc' = "threw" /\ fnResult' = NoResult
     ELSE fnPc' = "returned" /\ fnResult' = Classify(calibration, labels, fnPlanet)
  /\ UNCHANGED <<modelLoaded, options, storeFails, cache, heap, calls, history, fnPlanet, spectro,
                 analytics>>

NextClassify == ClassifyOnce

SpecClassify == InitClassify /\ [][NextClassify]_vars

\* ------------------------------------------------ properties of SpecClassify
\* C9: every probability of a result lies in [0, 1] and the rounded
\* probabilities sum to 1 within 1e-3 (10 units of 1e-4).
C9_ProbabilitiesNormalized ==
  fnPc = "returned"
    => /\ \A k \in 1..NLabels : fnResult.probabilities[k] \in 0..10000
       /\ Abs(SumSeq(fnResult.probabilities) - 10000) <= 10
\* under the default calibration, a result whose rounded probabilities do not
\* sum to 1 exactly
C9_Witness ==
  /\ fnPc = "returned"
  /\ calibration = DefaultCalibration
  /\ SumSeq(fnResult.probabilities) # 10000

\* ai_confidence is missing or a number in [0, 1]
AiInRange(planet) ==
  \/ planet.ai_confidence = Undef
  \/ planet.ai_confidence.t = "number" /\ planet.ai_confidence.n \in 0..100

\* C10: the confidence is min(0.999, 0.45 + top * 0.45 + (ai - 0.7) * 0.25)
\* rounded to three decimals: at most 0.999 for every planet and, when
\* ai_confidence is missing or in [0, 1], at least 0.
C10_ConfidenceBounded ==
  fnPc = "returned"
    => LET top == CHOOSE t \in {fnResult.probabilities[k] : k \in 1..NLabels} :
                    \A k \in 1..NLabels : fnResult.probabilities[k] <= t
           ai == fnResult.explanation.features.ai_confidence
       IN /\ fnResult.confidence <= 999
          /\ AiInRange(fnPlanet) => fnResult.confidence >= 0
          /\ fnResult.confidence
               = DivRound(Min(999000, 450000 + 45 * top + 2500 * (ai - 70)), 1000)
\* the cap at 0.999 is reached
C10_Witness == fnPc = "returned" /\ fnResult.confidence = 999
\* without a lower clamp, a negative ai_confidence gives a negative confidence
C10_NegativeConfidence == fnPc = "returned" /\ fnResult.confidence < 0

\* the labels whose value is the largest of the sequence q
ArgMax(q) == {k \in 1..Len(q) : \A j \in 1..Len(q) : q[j] <= q[k]}

\* C11: predictedType is a label of maximal rounded probability, and of the
\* labels of maximal probability the first in the enumeration order.
C11_PredictedTypeIsArgMax ==
  fnPc = "returned"
    => \E k \in ArgMax(fnResult.probabilities) :
         /\ fnResult.predictedType = BaseLabels[k]
         /\ \A j \in ArgMax(fnResult.probabilities) : k <= j
\* several labels tie for the maximum
C11_Witness ==
  /\ fnPc = "returned"
  /\ Cardinality(ArgMax(fnResult.probabilities)) > 1
  /\ fnResult.predictedType = BaseLabels[1]

\* C12: Earth is classified "Terrestrial" with the strictly largest
\* probability; and with a > 0 every label of largest base score has the
\* largest final probability.
C12_OrderPreserved ==
  fnPc = "returned"
    => /\ (fnPlanet = Earth /\ calibration = DefaultCalibration)
            => /\ fnResult.predictedType = "Terrestrial"
               /\ ArgMax(fnResult.probabilities) = {1}
       /\ calibration.a > 0
            => ArgMax(BaseScores(fnPlanet, FeatureVector(fnPlanet)))
                 \subseteq ArgMax(fnResult.probabilities)
\* Earth classified by a new classifier
C12_Witness ==
  /\ fnPc = "returned" /\ fnPlanet = Earth /\ calibration = DefaultCalibration
  /\ fnResult.predictedType = "Terrestrial"

\* the numeric planet fields with their feature names and defaults (hundredths)
NumericFields ==
  {<<"mass", "mass", 100>>, <<"radius", "radius", 100>>,
   <<"temperature", "temperature", 28800>>,
   <<"orbital_period", "orbital_period", 36500>>, <<"distance", "distance", 10000>>,
   <<"follow_up_observations", "follow_up", 0>>,
   <<"ai_confidence", "ai_confidence", 75>>}
\* the value is a number, or a string that reads as one
IsNumeric(v) == v.t = "number" \/ (v.t = "string" /\ ToNumber(v).t = "number")

\* C13: a feature is the planet's own value when that is numeric (0
\* included), and the default when it is missing or not numeric.
C13_DefaultsExactlyWhenInvalid ==
  fnPc = "returned"
    => \A fd \in NumericFields :
         fnResult.explanation.features[fd[2]]
           = IF IsNumeric(fnPlanet[fd[1]]) THEN ToNumber(fnPlanet[fd[1]]).n ELSE fd[3]

\* =========================================================================
\* SpectroscopyAI (src/src/SpectroscopyAI.jsx)
\*
\* A sample is [wavelength, intensity, snr]: the wavelength in nm, the
\* intensity (and every value derived from it) in units of 1e-6, the snr an
\* integer, 0 standing for a missing snr too (p.snr || 0).  A samples
\* argument is an array of samples or a value that is no array.
\* =========================================================================
Micro == 1000000
Arr(pts) == [t |-> "array", pts |-> pts]
NotArr(t) == [t |-> t, pts |-> <<>>]
Sample(w, i, snr) == [wavelength |-> w, intensity |-> i, snr |-> snr]

\* _moleculeWindows, in the order of the object's keys
MoleculeNames == <<"H2O", "CO2", "CH4", "O2", "N2", "SO2", "NH3", "Na", "K", "O3">>
MoleculeWindows ==
  << <<<<590, 600>>, <<650, 662>>, <<720, 740>>, <<940, 980>>>>,
     <<<<660, 672>>, <<720, 740>>, <<1400, 1600>>>>,
     <<<<530, 555>>, <<780, 805>>, <<1200, 1300>>>>,
     <<<<687, 695>>, <<760, 770>>>>,
     <<<<516, 532>>>>,
     <<<<400, 430>>, <<280, 320>>>>,
     <<<<645, 665>>, <<1000, 1080>>>>,
     <<<<588, 590>>>>,
     <<<<766, 770>>>>,
     <<<<255, 320>>>> >>
NMolecules == Len(MoleculeNames)

\* the sequence of the q[i] with lo <= i <= hi: Array.prototype.slice
Slice(q, lo, hi) == [i \in 1..(hi - lo + 1) |-> q[lo + i - 1]]
\* Array.prototype.filter: the elements of q that satisfy Keep, in order
RECURSIVE Filter(_, _)
Filter(Keep(_), q) ==
  IF q = <<>> THEN <<>>
  ELSE (IF Keep(Head(q)) THEN <<Head(q)>> ELSE <<>>) \o Filter(Keep, Tail(q))
\* the sum of F(q[i]): reduce((s, p) => s + F(p), 0)
RECURSIVE SumOver(_, _)
SumOver(F(_), q) == IF q = <<>> THEN 0 ELSE F(Head(q)) + SumOver(F, Tail(q))

\* a / b rounded to `digits` decimals, as an integer in units of 10^-digits,
\* for a >= 0 and b > 0: long division, so that no product leaves 32 bits
RECURSIVE DecDiv(_, _, _, _)
DecDiv(q, r, b, digits) ==
  IF digits = 0 THEN (IF 2 * r >= b THEN q + 1 ELSE q)
  ELSE Bind(<<10 * q + (10 * r) \div b, (10 * r) % b>>, LAMBDA s :
         DecDiv(s[1], s[2], b, digits - 1))
DivFixed(a, b, digits) == DecDiv(a \div b, a % b, b, digits)

\* the moving average applied to short arrays too
SavitzkyGolayAlways(y, window) ==
  LET half == window \div 2
  IN [idx \in 1..Len(y) |->
        LET start == Max(1, idx - half)
            end == Min(Len(y), idx + half)
            slice == Slice(y, start, end)
        IN y[idx] @@ [intensity_smoothed |->
                        DivRound(SumOver(LAMBDA q : q.intensity, slice), Len(slice))]]
\* _savitzkyGolay(y, window): the points with intensity_smoothed
SavitzkyGolay(y, window) ==
  IF Len(y) < window
  THEN [i \in 1..Len(y) |-> y[i] @@ [intensity_smoothed |-> y[i].intensity]]
  ELSE LET half == window \div 2
       IN [idx \in 1..Len(y) |->
             LET start == Max(1, idx - half)
                 end == Min(Len(y), idx + half)
                 slice == Slice(y, start, end)
             IN y[idx] @@ [intensity_smoothed |->
                             DivRound(SumOver(LAMBDA q : q.intensity, slice), Len(slice))]]

\* the element at 0-based position idx of the ascending sort of q
SortedAt(q, idx) ==
  CHOOSE v \in {q[j] : j \in 1..Len(q)} :
    /\ Cardinality({j \in 1..Len(q) : q[j] < v}) <= idx
    /\ Cardinality({j \in 1..Len(q) : q[j] <= v}) > idx

\* Math.floor(n / 20) | 1
FloorOr1(n) == IF (n \div 20) % 2 = 0 THEN (n \div 20) + 1 ELSE n \div 20

\* _continuumEnvelope(data): the 90th percentile of intensity_smoothed in a
\* sliding window, at least 1e-6
ContinuumEnvelope(data) ==
  LET n == Len(data)
      half == Max(11, FloorOr1(n)) \div 2
  IN [i \in 1..n |->
        LET start == Max(1, i - half)
            end == Min(n, i + half)
            slice == [j \in 1..(end - start + 1) |-> data[start + j - 1].intensity_smoothed]
        IN Bind(slice, LAMBDA sorted : Max(1, SortedAt(sorted, (Len(sorted) * 9) \div 10)))]

\* _normalize(data): the points with continuum and intensity_norm
Normalize(data) ==
  Bind(ContinuumEnvelope(data), LAMBDA envelope :
    [i \in 1..Len(data) |->
       data[i] @@ [continuum |-> envelope[i],
                   intensity_norm |-> DivFixed(data[i].intensity, envelope[i], 6)]])

\* p.intensity_norm || p.intensity
NormOr(p) == IF p.intensity_norm # 0 THEN p.intensity_norm ELSE p.intensity

\* the sum of the trapezoid areas of _equivalentWidth, in units of 0.5e-6 nm
RECURSIVE AreaSum(_, _)
AreaSum(win, i) ==
  IF i > Len(win) THEN 0
  ELSE Max(0, ((Micro - Min(Micro, NormOr(win[i - 1]))) + (Micro - Min(Micro, NormOr(win[i]))))
              * Abs(win[i].wavelength - win[i - 1].wavelength))
       + AreaSum(win, i + 1)
\* _equivalentWidth: +ew.toFixed(4), in units of 1e-4
EquivalentWidth(win) == IF Len(win) < 2 THEN 0 ELSE DivRound(AreaSum(win, 2), 200)

\* the result of _detectInRange for a range that holds no sample: null
NoWindow ==
  [none |-> TRUE, ew |-> 0, meanSnr |-> 0, absorptionFraction |-> 0, detected |-> FALSE,
   points |-> 0]
\* a _detectInRange that does not ask for an equivalent width
DetectInRangeAnyWidth(data, minW, maxW, minSnr) ==
  Bind(Filter(LAMBDA q : q.wavelength >= minW /\ q.wavelength <= maxW, data), LAMBDA win :
    IF Len(win) = 0 THEN NoWindow
    ELSE Bind(<<SumOver(LAMBDA q : q.snr, win), EquivalentWidth(win),
                Len(Filter(LAMBDA q : NormOr(q) < 980000, win))>>, LAMBDA m :
           [none |-> FALSE,
            ew |-> m[2],
            meanSnr |-> DivRound(m[1] * 100, Len(win)),
            absorptionFraction |-> DivRound(m[3] * 1000, Len(win)),
            detected |-> /\ m[1] >= minSnr * Len(win)
                         /\ m[3] * 100 > 6 * Len(win),
            points |-> Len(win)]))
\* _detectInRange: ew in units of 1e-4, meanSnr in hundredths,
\* absorptionFraction in thousandths
DetectInRange(data, minW, maxW, minSnr) ==
  Bind(Filter(LAMBDA q : q.wavelength >= minW /\ q.wavelength <= maxW, data), LAMBDA win :
    IF Len(win) = 0 THEN NoWindow
    ELSE Bind(<<SumOver(LAMBDA q : q.snr, win), EquivalentWidth(win),
                Len(Filter(LAMBDA q : NormOr(q) < 980000, win))>>, LAMBDA m :
           [none |-> FALSE,
            ew |-> m[2],
            meanSnr |-> DivRound(m[1] * 100, Len(win)),
            absorptionFraction |-> DivRound(m[3] * 1000, Len(win)),
            detected |-> /\ m[1] >= minSnr * Len(win)
                         /\ m[2] > 100
                         /\ m[3] * 100 > 6 * Len(win),
            points |-> Len(win)]))

\* x * x for a fixed-point fraction x
SquareFix(x) == Bind(x, LAMBDA v : (v * v) \div FixedOne)
\* Math.tanh(x) for a fixed-point x >= 0: (1 - e^(-2x)) / (1 + e^(-2x)), with
\* e^(-2x) the eighth power of e^(-x/4)
TanhFix(x) ==
  Bind(SquareFix(SquareFix(SquareFix(ExpFix(-(x \div 4))))), LAMBDA e :
    ((FixedOne - e) * FixedOne) \div (FixedOne + e))

\* the confidence of _matchTemplates for one molecule, in thousandths: wins
\* detected windows of n, sumEW in units of 1e-4, snrSum the sum of the
\* windows' meanSnr in hundredths
MatchConfidence(wins, n, sumEW, snrSum, minSnr) ==
  Bind(TanhFix((wins * 4 * FixedOne) \div 5
               + (((Min(30000, sumEW) * 18) \div 100) * FixedOne) \div 10000
               + (Min(5000 * n, snrSum) * ((2 * FixedOne) \div 5)) \div (5000 * n)),
       LAMBDA c :
         DivRound((IF snrSum < minSnr * 100 * n THEN c \div 2 ELSE c) * 1000, FixedOne))

\* _matchTemplates for the molecule at position mol of the windows table
MatchMolecule(data, mol, minSnr) ==
  Bind(Bind(Tabulate(LAMBDA k : DetectInRange(data, MoleculeWindows[mol][k][1],
                                              MoleculeWindows[mol][k][2], minSnr),
                     Len(MoleculeWindows[mol])),
            LAMBDA ranges : Filter(LAMBDA r : ~r.none, ranges)),
       LAMBDA perRange :
         IF Len(perRange) = 0
         THEN [detected |-> FALSE, confidence |-> 0, windows |-> <<>>]
         ELSE Bind(Len(Filter(LAMBDA r : r.detected, perRange)), LAMBDA wins :
                [detected |-> wins > 0,
                 confidence |-> MatchConfidence(wins, Len(perRange),
                                                SumOver(LAMBDA r : r.ew, perRange),
                                                SumOver(LAMBDA r : r.meanSnr, perRange),
                                                minSnr),
                 windows |-> perRange]))
\* _matchTemplates: one entry for each molecule, in the order of the table
MatchTemplates(data, minSnr) ==
  Tabulate(LAMBDA mol : MatchMolecule(data, mol, minSnr), NMolecules)

\* d.molecule.toUpperCase() for the molecule names of the table
UpperName(m) == IF m = "Na" THEN "NA" ELSE m
\* has(m): present[m.toUpperCase()] && present[m.toUpperCase()] > 0.25
Has(detected, m) ==
  \E i \in 1..Len(detected) :
    /\ UpperName(detected[i].molecule) = UpperName(m)
    /\ detected[i].confidence # 0
    /\ detected[i].confidence > 250

\* the rules with the rule for three species tried before the water rule
BiosignatureSpeciesFirst(detected, snrSum, n, minSnr) ==
  IF Has(detected, "O2") /\ Has(detected, "CH4")
  THEN [level |-> "High", reason |-> "Possible disequilibrium (O2 + CH4)"]
  ELSE IF Len(detected) >= 3 /\ snrSum > 12 * n
  THEN [level |-> "Medium", reason |-> "Multiple species with good S/N"]
  ELSE IF Has(detected, "H2O") /\ (Has(detected, "CO2") \/ Has(detected, "N2"))
  THEN [level |-> "Medium", reason |-> "Water + major background gas detected"]
  ELSE IF snrSum < minSnr * n
  THEN [level |-> "Low", reason |-> "Low average S/N"]
  ELSE [level |-> "Low", reason |-> "No clear biosignature pattern"]
\* the rules with the water rule tried before the O2 + CH4 rule
BiosignatureWaterFirst(detected, snrSum, n, minSnr) ==
  IF Has(detected, "H2O") /\ (Has(detected, "CO2") \/ Has(detected, "N2"))
  THEN [level |-> "Medium", reason |-> "Water + major background gas detected"]
  ELSE IF Has(detected, "O2") /\ Has(detected, "CH4")
  THEN [level |-> "High", reason |-> "Possible disequilibrium (O2 + CH4)"]
  ELSE IF Len(detected) >= 3 /\ snrSum > 12 * n
  THEN [level |-> "Medium", reason |-> "Multiple species with good S/N"]
  ELSE IF snrSum < minSnr * n
  THEN [level |-> "Low", reason |-> "Low average S/N"]
  ELSE [level |-> "Low", reason |-> "No clear biosignature pattern"]
\* the biosignature heuristic of analyzeSpectrum; avgSnr is snrSum / n
Biosignature(detected, snrSum, n, minSnr) ==
  IF Has(detected, "O2") /\ Has(detected, "CH4")
  THEN [level |-> "High", reason |-> "Possible disequilibrium (O2 + CH4)"]
  ELSE IF Has(detected, "H2O") /\ (Has(detected, "CO2") \/ Has(detected, "N2"))
  THEN [level |-> "Medium", reason |-> "Water + major background gas detected"]
  ELSE IF Len(detected) >= 3 /\ snrSum > 12 * n
  THEN [level |-> "Medium", reason |-> "Multiple species with good S/N"]
  ELSE IF snrSum < minSnr * n
  THEN [level |-> "Low", reason |-> "Low average S/N"]
  ELSE [level |-> "Low", reason |-> "No clear biosignature pattern"]

\* suggestFollowUps for an analysis that has features; avgSnr is snrSum / n
SuggestFollowUps(snrSum, n, level, planet) ==
  (IF snrSum < 10 * n
   THEN <<"Increase exposure time to reach avg S/N > 15 or co-add more transits.">>
   ELSE <<>>)
  \o (IF level = "High" THEN <<"Immediate multi-epoch high-resolution follow-up.">>
      ELSE <<>>)
  \o <<"Observe reference stars to remove telluric features.">>
  \o (IF ~planet.isNull /\ Truthy(planet.distance)
         /\ ToNumber(planet.distance).t = "number" /\ ToNumber(planet.distance).n > 50000
      THEN <<"Use space-based instruments (JWST) for highest sensitivity.">>
      ELSE <<>>)

\* a no-data result whose confidence went through Math.max(0.05, .)
NoDataClamped ==
  [detectedMolecules |-> <<>>,
   moleculeConfidences |-> <<>>,
   features |-> [absorptionLines |-> 0, avgSnr |-> 0, spectralPoints |-> 0],
   biosignaturePotential |-> [level |-> "Low", reason |-> "No data"],
   recommendations |-> <<>>,
   confidence |-> 50]
\* the result of analyzeSpectrum for an argument that is no non-empty array
NoDataResult ==
  [detectedMolecules |-> <<>>,
   moleculeConfidences |-> <<>>,
   features |-> [absorptionLines |-> 0, avgSnr |-> 0, spectralPoints |-> 0],
   biosignaturePotential |-> [level |-> "Low", reason |-> "No data"],
   recommendations |-> <<>>,
   confidence |-> 0]

\* the loop pushing every molecule whose confidence is above 0.2
RECURSIVE DetectedByConfidence(_, _)
DetectedByConfidence(matches, mol) ==
  IF mol > NMolecules THEN <<>>
  ELSE (IF matches[mol].confidence > 200
        THEN <<[molecule |-> MoleculeNames[mol], confidence |-> matches[mol].confidence,
                windows |-> matches[mol].windows]>>
        ELSE <<>>)
       \o DetectedByConfidence(matches, mol + 1)
\* the loop over Object.entries(matches) from the molecule at position mol on:
\* the detectedMolecules pushed
RECURSIVE DetectedFrom(_, _)
DetectedFrom(matches, mol) ==
  IF mol > NMolecules THEN <<>>
  ELSE (IF matches[mol].detected /\ matches[mol].confidence > 200
        THEN <<[molecule |-> MoleculeNames[mol], confidence |-> matches[mol].confidence,
                windows |-> matches[mol].windows]>>
        ELSE <<>>)
       \o DetectedFrom(matches, mol + 1)

\* the confidence without Math.max(0.05, .)
OverallConfidenceNoFloor(snrSum, n, confSum, count) ==
  DivRound(Min(999000, (snrSum * 5000) \div n
                       + (IF count = 0 THEN 0 ELSE (confSum * 750) \div count)),
           1000)
\* Math.min(0.999, Math.max(0.05, 0.2 * (avgSnr / 40) + 0.75 * mean)), rounded
\* to thousandths; confSum the sum of the detected molecules' confidences
OverallConfidence(snrSum, n, confSum, count) ==
  DivRound(Min(999000, Max(50000, (snrSum * 5000) \div n
                                  + (IF count = 0 THEN 0 ELSE (confSum * 750) \div count))),
           1000)

\* analyzeSpectrum after its timer, for a non-empty array of samples.  The
\* summary string and syntheticModel are left out: they are functions of the
\* fields kept.
AnalyzeData(pts, planet, minSnr, window) ==
  Bind(Bind(SavitzkyGolay(pts, window), LAMBDA smoothed : Normalize(smoothed)),
       LAMBDA normalized :
    Bind(MatchTemplates(normalized, minSnr), LAMBDA matches :
      Bind(<<SumOver(LAMBDA q : q.snr, normalized), DetectedFrom(matches, 1)>>, LAMBDA m :
        Bind(Biosignature(m[2], m[1], Len(normalized), minSnr), LAMBDA bio :
          [detectedMolecules |-> m[2],
           moleculeConfidences |-> Tabulate(LAMBDA mol : matches[mol].confidence, NMolecules),
           features |-> [absorptionLines |->
                           Len(Filter(LAMBDA q : NormOr(q) < 980000, normalized)),
                         avgSnr |-> DivRound(m[1] * 100, Len(normalized)),
                         spectralPoints |-> Len(normalized)],
           biosignaturePotential |-> bio,
           recommendations |-> SuggestFollowUps(m[1], Len(normalized), bio.level, planet),
           confidence |-> OverallConfidence(m[1], Len(normalized),
                                            SumOver(LAMBDA d : d.confidence, m[2]),
                                            Len(m[2])),
           normalizedData |-> normalized]))))

\* analyzeSpectrum after its timer; undefined takes the default argument []
AnalyzeSpectrum(samples, planet, minSnr, window) ==
  IF samples.t # "array" \/ Len(samples.pts) = 0
  THEN NoDataResult
  ELSE AnalyzeData(samples.pts, planet, minSnr, window)

\* -------------------------------------------------- the calls of SpecSpectrum
\* wavelength grids: two samples in a CH4 and in an O2 window; in an H2O and
\* in a CO2 window; in the Na window and in the window O2 and K share; in all
\* four of the first two grids.  The last sample of each lies in no window.
GridMethane == <<535, 550, 688, 694, 900>>
GridWater == <<592, 598, 662, 670, 900>>
GridSodium == <<588, 590, 766, 770, 900>>
GridAll == <<535, 550, 592, 598, 662, 670, 688, 694, 900>>
\* the samples at the wavelengths of grid, with intensity 0.5 at the positions
\* of dips and 1.0 elsewhere, all with the same snr
Spectrum(grid, dips, snr) ==
  [i \in 1..Len(grid) |-> Sample(grid[i], IF i \in dips THEN Micro \div 2 ELSE Micro, snr)]
SnrLevels == {5, 10, 20}
\* samples of unequal snr: the first CH4 window dips at snr 10 and the second
\* has snr 1; the O2 window dips at snr 5
MixedSnr ==
  <<Sample(535, Micro \div 2, 10), Sample(550, Micro \div 2, 10),
    Sample(688, Micro \div 2, 5), Sample(694, Micro \div 2, 5),
    Sample(790, Micro, 1), Sample(900, Micro, 1)>>
Spectra ==
  {MixedSnr} \cup
  {Spectrum(g, dips, snr) :
     g \in {GridMethane, GridWater, GridSodium}, dips \in SUBSET (1..5), snr \in SnrLevels}
  \cup {Spectrum(GridAll, UNION pairs, snr) :
          pairs \in SUBSET {{1, 2}, {3, 4}, {5, 6}, {7, 8}}, snr \in SnrLevels}
\* the spectralData arguments: arrays, and values that are no array
SpectrumArgs ==
  {Arr(pts) : pts \in Spectra} \cup {Arr(<<>>)}
  \cup {NotArr(t) : t \in {"undefined", "null", "object", "string"}}
\* the planet arguments of analyzeSpectrum: {} and a planet 800 away
SpectrumPlanets == {EmptyPlanet, EarthTwin}
\* the smoothingWindow options
SmoothingWindows == {3, DefaultSmoothingWindow}

InitSpectrum ==
  /\ Constructed
  /\ calibration = DefaultCalibration
  /\ FnIdle
  /\ minSnrForDetection = DefaultMinSnr
  /\ smoothingWindow \in SmoothingWindows
  /\ spSamples = Arr(<<>>)
  /\ spPlanet = EmptyPlanet
  /\ spPc = "idle"
  /\ spResult = NoResult
  /\ AnalyticsIdle
  /\ StoreWorks

\* analyzeSpectrum(samples, planet) called, with samples one of args and
\* planet one of planets: it awaits its processingDelayMs timer
AnalyzeCalled(args, planets) ==
  /\ spPc \in {"idle", "returned"}
  /\ \E samples \in args : \E planet \in planets :
       /\ spSamples' = samples
       /\ spPlanet' = planet
  /\ spPc' = "timer"
  /\ spResult' = NoResult
  /\ UNCHANGED <<modelLoaded, options, storeFails, cache, heap, calls, history, fn,
                 minSnrForDetection, smoothingWindow, analytics>>
CallAnalyzeSpectrum == AnalyzeCalled(SpectrumArgs, SpectrumPlanets)

\* the processingDelayMs timer fires: analyzeSpectrum returns its result
AnalyzeTimer ==
  /\ spPc = "timer"
  /\ spPc' = "returned"
  /\ spResult' = AnalyzeSpectrum(spSamples, spPlanet, minSnrForDetection, smoothingWindow)
  /\ UNCHANGED <<modelLoaded, options, storeFails, cache, heap, calls, history, fn,
                 minSnrForDetection, smoothingWindow, spSamples, spPlanet, analytics>>

NextSpectrum == CallAnalyzeSpectrum \/ AnalyzeTimer

SpecSpectrum == InitSpectrum /\ [][NextSpectrum]_vars

\* ------------------------------------------------ properties of SpecSpectrum
\* the samples argument is a non-empty array
HasData == spSamples.t = "array" /\ Len(spSamples.pts) > 0
\* molecule m is among the detected molecules with a confidence above 0.25
Present(m) ==
  \E i \in 1..Len(spResult.detectedMolecules) :
    /\ spResult.detectedMolecules[i].molecule = m
    /\ spResult.detectedMolecules[i].confidence > 250

\* C14: analyzeSpectrum of samples that are no non-empty array returns the
\* no-data result: nothing detected, no confidences, confidence 0, level
\* "Low" with reason "No data".
C14_NoDataResult ==
  (spPc = "returned" /\ ~HasData)
    => /\ spResult.detectedMolecules = <<>>
       /\ spResult.moleculeConfidences = <<>>
       /\ spResult.confidence = 0
       /\ spResult.biosignaturePotential = [level |-> "Low", reason |-> "No data"]
\* analyzeSpectrum(null) has returned
C14_Witness == spPc = "returned" /\ spSamples = NotArr("null")

\* C15: the level is "High" exactly when O2 and CH4 are both detected with a
\* confidence above 0.25.
C15_HighIffOxygenAndMethane ==
  spPc = "returned"
    => ((spResult.biosignaturePotential.level = "High")
          <=> (HasData /\ Present("O2") /\ Present("CH4")))
\* O2 and CH4 detected while the rules for water and for three species with
\* good S/N match too
C15_Witness ==
  /\ spPc = "returned" /\ HasData
  /\ Present("O2") /\ Present("CH4") /\ Present("H2O") /\ Present("CO2")
  /\ Len(spResult.detectedMolecules) >= 3
  /\ spResult.features.avgSnr > 1200
  /\ spResult.biosignaturePotential.level = "High"

\* the sum of the intensities of the samples lo..hi of pts
RECURSIVE IntensitySum(_, _, _)
IntensitySum(pts, lo, hi) ==
  IF lo > hi THEN 0 ELSE pts[lo].intensity + IntensitySum(pts, lo + 1, hi)

Candidate(name, habitability, ai, follow, distance, status, atmosphere) ==
  [name |-> name, habitability_score |-> habitability, ai_confidence |-> ai,
   follow_up_observations |-> follow, distance |-> distance,
   confirmed_status |-> status, atmosphere |-> atmosphere, isNull |-> FALSE]

CandidateStatus == Str(<<"C", "a", "n", "d", "i", "d", "a", "t", "e">>)
ConfirmedStatus == Str(<<"C", "o", "n", "f", "i", "r", "m", "e", "d">>)

\* Math.exp(-Math.min(1500, d) / 500) as a fixed-point fraction, d in
\* hundredths: the fourth power of e^(-min(1500, d) / 2000)
DistancePenalty(d) ==
  SquareFix(SquareFix(ExpFix(-DivTrunc((Min(150000, d) \div 10) * FixedOne, 20000))))

\* the score of calculatePriorityScore in thousandths, from its five terms:
\* habitScore, aiConfidence, the follow-up count and the distance in
\* hundredths, candidate the test of confirmed_status. The sum is in units of
\* 1e-6, clamped to [0, 0.999] and rounded by toFixed(3).
ScoreOfPenalised(habitScore, aiConfidence, follow, distance, candidate) ==
  DivRound(Max(0, Min(999000,
      - habitScore * 5000 + aiConfidence * 2000 + Min(2000, follow) * 50
      + ((DistancePenalty(distance) * 8000) \div FixedOne) * 10
      + (IF candidate THEN 120000 ELSE 0))), 1000)
ScoreOf(habitScore, aiConfidence, follow, distance, candidate) ==
  DivRound(Max(0, Min(999000,
      habitScore * 5000 + aiConfidence * 2000 + Min(2000, follow) * 50
      + ((DistancePenalty(distance) * 8000) \div FixedOne) * 10
      + (IF candidate THEN 120000 ELSE 0))), 1000)

\* calculatePriorityScore(planet), in thousandths
CalculatePriorityScore(planet) ==
  ScoreOf(NumberOr(planet.habitability_score, 0),
          NumberOr(planet.ai_confidence, 70),
          NumberOr(planet.follow_up_observations, 0),
          NumberOr(planet.distance, 10000),
          planet.confirmed_status = CandidateStatus)

\* the three distance tiers of recommendObservationPlan: instrument, exposure
\* in hundredths of an hour, cadence
GroundTier ==
  [instrument |-> "Ground-based high-resolution spectrograph (e.g., HARPS/HARPS-N)",
   exposure |-> 150, cadence |-> "Weekly",
   rationale |-> "Nearby target; ground-based facilities sufficient for high S/N."]
SpaceTier ==
  [instrument |-> "JWST NIRSpec / NIRISS", exposure |-> 300, cadence |-> "Monthly",
   rationale |-> "Moderate distance; space-based IR yields better molecular access."]
DeepTier ==
  [instrument |-> "JWST deep spectroscopy + ALMA (for sub-mm)", exposure |-> 600,
   cadence |-> "Per-transit stacking",
   rationale |-> "Distant target; requires deep integrations and multi-epoch stacking."]
\* the tier of a distance in hundredths of a light-year
TierOf(dist) ==
  IF dist < 10000 THEN GroundTier ELSE IF dist < 50000 THEN SpaceTier ELSE DeepTier

\* planet.name of null, or toLowerCase of a truthy atmosphere that is no
\* string, raises a TypeError
PlanThrows(planet) ==
  planet.isNull \/ (Truthy(planet.atmosphere) /\ planet.atmosphere.t # "string")

\* recommendObservationPlan(planet) for an argument that does not make it throw
RecommendObservationPlan(planet) ==
  LET tier == TierOf(NumberOr(planet.distance, 20000))
      water == Truthy(planet.atmosphere)
               /\ Includes(ToLowerCase(planet.atmosphere.s), <<"h", "2", "o">>)
  IN [target |-> IF Truthy(planet.name) THEN planet.name.s ELSE <<"U", "n", "k", "n", "o", "w", "n">>,
      recommendedInstruments |->
        <<tier.instrument>>
        \o (IF water THEN <<"High-resolution optical for water-line cross correlation">>
            ELSE <<>>),
      exposureEstimateHours |-> tier.exposure,
      suggestedCadence |-> tier.cadence,
      rationale |-> tier.rationale]

\* ---------------------------------- calculatePriorityScore as a function
\* The planets of SpecPriority: every object made of these field values.
PaHabitability == {Undef, Num(-50), Num(0), Num(30), Num(80), Num(150),
                   Str(<<"0", ".", "5">>)}
PaConfidence == {Undef, Num(0), Num(90)}
PaFollowUps == {Undef, Num(1000), Num(3000)}
PaDistance == {Undef, Num(0), Num(5000), Num(80000), Num(200000)}
PaStatus == {Undef, CandidateStatus, ConfirmedStatus}
PriorityPlanets ==
  {Candidate(EarthName, h, ai, f, d, st, Undef) :
     h \in PaHabitability, ai \in PaConfidence, f \in PaFollowUps, d \in PaDistance,
     st \in PaStatus}

InitPriority ==
  /\ Constructed
  /\ calibration = DefaultCalibration
  /\ FnIdle
  /\ SpectroIdle
  /\ paPlanet \in PriorityPlanets
  /\ paPc = "call"
  /\ paScore = 0
  /\ paPrev = [none |-> TRUE]
  /\ paPlan = NoResult
  /\ PatternsIdle
  /\ StoreWorks

\* calculatePriorityScore(paPlanet)
ScoreOnce ==
  /\ paPc = "call"
  /\ paScore' = CalculatePriorityScore(paPlanet)
  /\ paPc' = "returned"
  /\ UNCHANGED <<modelLoaded, options, storeFails, cache, heap, calls, history, fn, spectro,
                 paPlanet, paPrev, paPlan, patterns>>

\* the caller keeps the planet and its score, and sets up a call for a copy
\* of the planet with another habitability_score
ChangeHabitability ==
  /\ paPc = "returned"
  /\ \E h \in PaHabitability :
       /\ h # paPlanet.habitability_score
       /\ paPlanet' = [paPlanet EXCEPT !.habitability_score = h]
  /\ paPrev' = [none |-> FALSE, planet |-> paPlanet, score |-> paScore]
  /\ paPc' = "call"
  /\ UNCHANGED <<modelLoaded, options, storeFails, cache, heap, calls, history, fn, spectro,
                 paScore, paPlan, patterns>>

NextPriority == ScoreOnce \/ ChangeHabitability

SpecPriority == InitPriority /\ [][NextPriority]_vars

\* the two planets scored last differ in a numeric habitability_score only,
\* the earlier one having the lower
ScoredLowerBefore ==
  /\ paPc = "returned" /\ ~paPrev.none
  /\ paPrev.planet.habitability_score.t = "number"
  /\ paPlanet.habitability_score.t = "number"
  /\ paPrev.planet.habitability_score.n <= paPlanet.habitability_score.n

\* C17: of two planets that differ only in a numeric habitability_score, the
\* one with the higher habitability_score has no lower priority score.
C17_MonotoneInHabitability ==
  ScoredLowerBefore => paPrev.score <= paScore
\* a planet scored at habitability 0.3 and then at 0.8, with a higher score
C17_Witness ==
  /\ ScoredLowerBefore
  /\ paPrev.planet.habitability_score = Num(30)
  /\ paPlanet.habitability_score = Num(80)
  /\ paPrev.score < paScore

\* the planet's four numeric fields are all numbers
AllNumbers(planet) ==
  /\ planet.habitability_score.t = "number"
  /\ planet.ai_confidence.t = "number"
  /\ planet.follow_up_observations.t = "number"
  /\ planet.distance.t = "number"

\* C18: the score is the clamped, rounded weighted sum evaluated on the
\* planet's own values, ai_confidence 0 and distance 0 included, with the
\* novelty term for confirmed_status "Candidate" only; it lies in [0, 0.999].
C18_ScoreOnOwnValues ==
  (paPc = "returned" /\ AllNumbers(paPlanet))
    => /\ paScore = ScoreOf(paPlanet.habitability_score.n, paPlanet.ai_confidence.n,
                            paPlanet.follow_up_observations.n, paPlanet.distance.n,
                            paPlanet.confirmed_status = CandidateStatus)
       /\ paScore >= 0 /\ paScore <= 999

\* -------------------------------- recommendObservationPlan as a function
\* The planet arguments of SpecPlan: null, and every object made of these
\* field values.
PlanNames == {Undef, EarthName}
PlanDistances ==
  {Undef, Null, Num(-1000), Num(0), Num(5000), Num(9999), Num(10000), Num(20000),
   Num(49999), Num(50000), Num(80000), Str(<<"3", "0", "0">>), Str(<<"f", "a", "r">>)}
PlanAtmospheres == {Undef, N2O2, Str(<<"H", "2", "O", "/", "C", "O", "2">>), Num(42)}
NullCandidate ==
  [Candidate(Null, Null, Null, Null, Null, Null, Null) EXCEPT !.isNull = TRUE]
PlanPlanets ==
  {NullCandidate} \cup
  {Candidate(nm, Undef, Undef, Undef, d, Undef, a) :
     nm \in PlanNames, d \in PlanDistances, a \in PlanAtmospheres}

InitPlan ==
  /\ Constructed
  /\ calibration = DefaultCalibration
  /\ FnIdle
  /\ SpectroIdle
  /\ paPlanet \in PlanPlanets
  /\ paPc = "call"
  /\ paScore = 0
  /\ paPrev = [none |-> TRUE]
  /\ paPlan = NoResult
  /\ PatternsIdle
  /\ StoreWorks

\* recommendObservationPlan(paPlanet), to the plan or the exception
PlanOnce ==
  /\ paPc = "call"
  /\ IF PlanThrows(paPlanet)
     THEN paPc' = "threw" /\ paPlan' = NoResult
     ELSE paPc' = "returned" /\ paPlan' = RecommendObservationPlan(paPlanet)
  /\ UNCHANGED <<modelLoaded, options, storeFails, cache, heap, calls, history, fn, spectro,
                 paPlanet, paScore, paPrev, patterns>>

NextPlan == PlanOnce

SpecPlan == InitPlan /\ [][NextPlan]_vars

\* the plan holds the instrument, exposure and cadence of this tier, and the
\* instrument of no other tier
PlanIs(tier) ==
  /\ paPlan.recommendedInstruments[1] = tier.instrument
  /\ paPlan.exposureEstimateHours = tier.exposure
  /\ paPlan.suggestedCadence = tier.cadence
  /\ \A i \in 2..Len(paPlan.recommendedInstruments) :
       paPlan.recommendedInstruments[i]
         \notin {GroundTier.instrument, SpaceTier.instrument, DeepTier.instrument}

\* C19: every planet gets exactly one distance tier: the ground-based one
\* (1.5 h, "Weekly") for a distance below 100, the space-based one (3 h,
\* "Monthly") from 100 to below 500, the deep one (6 h, "Per-transit
\* stacking") from 500 on.
C19_OneTierByDistance ==
  (paPc = "returned" /\ paPlanet.distance.t = "number")
    => PlanIs(IF paPlanet.distance.n < 10000 THEN GroundTier
              ELSE IF paPlanet.distance.n < 50000 THEN SpaceTier
              ELSE DeepTier)

\* ------------------------------------------------ the calls under fair timers
\* The calls of SpecLive: classifyPlanet of Earth, classifyBatch of
\* [null, Earth], analyzeSpectrum of a spectrum of one sample.
LivePlanetIds == {1}
LiveBatches == {<<3, 1>>}
LiveSpectrumArgs == {Arr(Spectrum(<<900>>, {}, 10))}

LiveClassifyPlanet == \E pid \in LivePlanetIds : Issue("classifyPlanet", <<pid>>)
LiveClassifyBatch == \E pids \in LiveBatches : Issue("classifyBatch", pids)
LiveAnalyzeSpectrum == AnalyzeCalled(LiveSpectrumArgs, {EmptyPlanet})

NextLive ==
  \/ CallLoadModel
  \/ LiveClassifyPlanet
  \/ LiveClassifyBatch
  \/ LiveAnalyzeSpectrum
  \/ LoadTimer
  \/ DelayTimer
  \/ AnalyzeTimer
  \/ ClearCache

\* setTimeout: a timer that is pending fires
TimersFire ==
  /\ WF_vars(LoadTimer)
  /\ WF_vars(DelayTimer)
  /\ WF_vars(AnalyzeTimer)

SpecLive == Init /\ [][NextLive]_vars /\ TimersFire

\* call c was issued
Issued(c) == Len(calls) >= c
\* no planet of call c makes classifyPlanet throw
NoneThrows(c) ==
  \A i \in 1..Len(calls[c].planets) : ~Throws(SamplePlanets[calls[c].planets[i]])
\* the promise of call c is settled: fulfilled, or rejected by a planet that
\* makes classifyPlanet throw
Settled(c) ==
  /\ Issued(c)
  /\ calls[c].pc \in {"done", "rejected"}
  /\ NoneThrows(c) => calls[c].pc = "done"

StorePlanetIds == {1, 2, 4}
StoreBatches == {<<1, 1>>}

InitStore ==
  /\ Constructed
  /\ calibration = DefaultCalibration
  /\ FnIdle
  /\ SpectroIdle
  /\ AnalyticsIdle
  /\ storeFails \in BOOLEAN

StoreClassifyPlanet == \E pid \in StorePlanetIds : Issue("classifyPlanet", <<pid>>)
StoreClassifyBatch == \E pids \in StoreBatches : Issue("classifyBatch", pids)

\* the backing store of the cache starts or stops raising on set
StoreFlips ==
  /\ storeFails' = ~storeFails
  /\ UNCHANGED <<modelLoaded, options, cache, heap, calls, history, fn, spectro, analytics>>

NextStore ==
  \/ StoreClassifyPlanet
  \/ StoreClassifyBatch
  \/ LoadTimer
  \/ DelayTimer
  \/ StoreFlips

SpecStore == InitStore /\ [][NextStore]_vars

\* the classifyPlanet body x ran to its cache write, and the write raised
WriteFailed(x) == ~Item(x).hit /\ Item(x).pc # "rejected" /\ ~Item(x).stored

BatchSamples == {<<>>, <<1, 4>>, <<4, 1, 2>>, <<1, 3>>}

BatchCalled == \E pids \in BatchSamples : Issue("classifyBatch", pids)

NextBatch ==
  \/ BatchCalled
  \/ LoadTimer
  \/ DelayTimer
  \/ ClearCache

SpecBatch == Init /\ [][NextBatch]_vars

\* C22: a classifyBatch that is fulfilled is fulfilled with as many results
\* as it was given planets, the result at each position being what the
\* classifyPlanet of the planet at that position returned, with that
\* planet's fingerprint; for an empty array it is fulfilled with an empty
\* array as soon as the model is loaded.
C22_BatchKeepsOrder ==
  \A c \in 1..Len(calls) :
    calls[c].op = "classifyBatch"
      => /\ calls[c].pc = "done"
              => /\ Len(calls[c].value) = Len(calls[c].planets)
                 /\ \A i \in 1..Len(calls[c].planets) :
                      /\ calls[c].value[i] = calls[c].items[i].ret
                      /\ origin[calls[c].value[i]].key = SampleKeys[calls[c].planets[i]]
         /\ (calls[c].planets = <<>> /\ calls[c].pc # "awaitLoad")
              => (calls[c].pc = "done" /\ calls[c].value = <<>>)
\* a batch of three planets with two fingerprints is fulfilled: the hot giant
\* has a result of its own, the twin has the result of Earth
C22_Witness ==
  \E c \in 1..Len(calls) :
    /\ calls[c].op = "classifyBatch" /\ calls[c].pc = "done"
    /\ Len(calls[c].planets) = 3
    /\ calls[c].value[1] # calls[c].value[2]
    /\ calls[c].value[2] = calls[c].value[3]

\* ------------------------------------------------ analyzeDiscoveryPatterns
\* A record of the discovery history; discovery_year is a number of whole
\* years or missing.
HistoryRecord(year, method, telescope) ==
  [discovery_year |-> year, discovery_method |-> method, discovery_telescope |-> telescope]

\* alpha = 0.4 as the fraction AlphaNum / AlphaDen
AlphaNum == 2
AlphaDen == 5

\* Number(p.discovery_year) || new Date().getFullYear()
YearOf(p, clock) == NumberOr(p.discovery_year, clock)

\* countsByYear after the forEach: the years that occur, each with the
\* number of records of that year
CountsByYear(planets, clock) ==
  [y \in {YearOf(planets[i], clock) : i \in DOMAIN planets}
     |-> Cardinality({i \in DOMAIN planets : YearOf(planets[i], clock) = y})]

\* Object.keys(countsByYear).map(Number).sort((a, b) => a - b)
RECURSIVE SortedYears(_)
SortedYears(ys) ==
  IF ys = {} THEN <<>>
  ELSE Bind(CHOOSE m \in ys : \A y \in ys : m <= y, LAMBDA m :
         <<m>> \o SortedYears(ys \ {m}))

\* Array.prototype.slice(start): a negative start counts from the end, and
\* slice(-0) is slice(0)
SliceFrom(q, start) ==
  SubSeq(q, (IF start < 0 THEN Max(Len(q) + start, 0) ELSE Min(start, Len(q))) + 1, Len(q))

\* alpha * count + (1 - alpha) * last, the level kept as the fraction num / den
SmoothStep(count, last) ==
  [num |-> AlphaNum * count * last.den + (AlphaDen - AlphaNum) * last.num,
   den |-> AlphaDen * last.den]

\* the loop of lines 27-29 from index i (1-based) on
RECURSIVE SmoothFrom(_, _, _)
SmoothFrom(series, i, last) ==
  IF i > Len(series) THEN last
  ELSE SmoothFrom(series, i + 1, SmoothStep(series[i].count, last))

\* let last = series.length > 0 ? series[0].count : 0, then the loop
SmoothedLevel(series) ==
  SmoothFrom(series, 2, [num |-> (IF Len(series) > 0 THEN series[1].count ELSE 0), den |-> 1])

\* a smoothing step that keeps alpha * base only
KeepSmoothingDecays(base) == [num |-> AlphaNum * base.num, den |-> AlphaDen * base.den]
\* base = alpha * base + (1 - alpha) * base
KeepSmoothing(base) ==
  [num |-> AlphaNum * base.num + (AlphaDen - AlphaNum) * base.num, den |-> AlphaDen * base.den]

\* Math.round(base * (1 + k * 0.03)) for a base that is not negative
Predicted(base, k) == DivRound(base.num * (100 + 3 * k), base.den * 100)

\* the loop of lines 32-35 from step k on
RECURSIVE ForecastsFrom(_, _, _)
ForecastsFrom(base, lastYear, k) ==
  IF k > 3 THEN <<>>
  ELSE Bind(KeepSmoothing(base), LAMBDA b :
         <<[year |-> lastYear + k, predicted |-> Predicted(b, k)]>>
           \o ForecastsFrom(b, lastYear, k + 1))

\* the keys of a counting object in the order of their first assignment
RECURSIVE FirstSeen(_, _)
FirstSeen(keys, seen) ==
  IF keys = <<>> THEN <<>>
  ELSE IF Head(keys) \in seen THEN FirstSeen(Tail(keys), seen)
  ELSE <<Head(keys)>> \o FirstSeen(Tail(keys), seen \cup {Head(keys)})

\* Object.entries of the counting object built from the keys
CountEntries(keys) ==
  Bind(FirstSeen(keys, {}), LAMBDA d :
    [i \in 1..Len(d) |->
       [key |-> d[i], count |-> Cardinality({j \in DOMAIN keys : keys[j] = d[i]})]])

\* sort((a, b) => b[1] - a[1]): by count, the larger first, entries of equal
\* count in the order they had
RECURSIVE SortByCount(_)
SortByCount(q) ==
  IF q = <<>> THEN <<>>
  ELSE Bind(CHOOSE i \in DOMAIN q :
              /\ \A j \in DOMAIN q : q[j].count <= q[i].count
              /\ \A j \in 1..(i - 1) : q[j].count < q[i].count,
            LAMBDA i :
              <<q[i]>> \o SortByCount(SubSeq(q, 1, i - 1) \o SubSeq(q, i + 1, Len(q))))

\* (last - first) / Math.max(1, first), kept as the fraction num / den
RecentGrowth(series) ==
  IF Len(series) > 1
  THEN [num |-> series[Len(series)].count - series[1].count, den |-> Max(1, series[1].count)]
  ELSE [num |-> 0, den |-> 1]

\* analyzeDiscoveryPatterns(planets) of an instance with the window, at a
\* moment the wall clock shows the year `clock`
AnalyzeDiscoveryPatterns(planets, window, clock) ==
  Bind(CountsByYear(planets, clock), LAMBDA countsByYear :
  Bind(SliceFrom(SortedYears(DOMAIN countsByYear), -window), LAMBDA recentYears :
  Bind([i \in 1..Len(recentYears) |->
          [year |-> recentYears[i], count |-> countsByYear[recentYears[i]]]], LAMBDA series :
    [series |-> series,
     forecasts |->
       ForecastsFrom(SmoothedLevel(series),
                     IF recentYears # <<>> /\ recentYears[Len(recentYears)] # 0
                     THEN recentYears[Len(recentYears)] ELSE clock,
                     1),
     methodRanking |->
       Bind(SortByCount(CountEntries([i \in DOMAIN planets |-> planets[i].discovery_method])),
            LAMBDA e : [i \in DOMAIN e |-> [method |-> e[i].key, count |-> e[i].count]]),
     topTelescopes |->
       Bind(SortByCount(CountEntries([i \in DOMAIN planets |-> planets[i].discovery_telescope])),
            LAMBDA e : [i \in 1..Min(6, Len(e)) |->
                          [telescope |-> e[i].key, count |-> e[i].count]]),
     summary |-> [totalPlanets |-> Len(planets), recentGrowth |-> RecentGrowth(series)]])))

\* The histories of SpecPatterns: none; one record; three records of two
\* years, out of order; five records of three years, one without a year; a
\* record without a year only.
Transit(year) == HistoryRecord(year, "Transit", "Kepler")
RadialVelocity(year) == HistoryRecord(year, "Radial Velocity", "HARPS")
Histories ==
  {<<>>,
   <<Transit(Num(2020))>>,
   <<RadialVelocity(Num(2021)), Transit(Num(2020)), Transit(Num(2021))>>,
   <<Transit(Num(2019)), RadialVelocity(Undef), Transit(Num(2021)),
     Transit(Num(2021)), RadialVelocity(Num(2021))>>,
   <<HistoryRecord(Undef, "Imaging", "JWST")>>}
WindowYears == {1, 2, 10}
TrendSmoothings == {60, 90}
\* the last year the wall clock reaches
LastClockYear == 2025

\* new PredictiveAnalytics(opts) and a first call of analyzeDiscoveryPatterns
InitPatterns ==
  /\ Constructed
  /\ calibration = DefaultCalibration
  /\ FnIdle
  /\ SpectroIdle
  /\ paPlanet = EmptyPlanet
  /\ paPc = "call"
  /\ paScore = 0
  /\ paPrev = [none |-> TRUE]
  /\ paPlan = NoResult
  /\ timeWindowYears \in WindowYears
  /\ trendSmoothing \in TrendSmoothings
  /\ clockYear = ClockStart
  /\ paPlanets \in Histories
  /\ paPatterns = NoResult
  /\ StoreWorks

\* analyzeDiscoveryPatterns(paPlanets)
PatternsOnce ==
  /\ paPc = "call"
  /\ paPatterns' = AnalyzeDiscoveryPatterns(paPlanets, timeWindowYears, clockYear)
  /\ paPc' = "returned"
  /\ UNCHANGED <<modelLoaded, options, storeFails, cache, heap, calls, history, fn, spectro,
                 paPlanet, paScore, paPrev, paPlan, timeWindowYears, trendSmoothing,
                 clockYear, paPlanets>>

\* the caller keeps the arguments and the result, and sets up the next call
PatternsAgain ==
  /\ paPc = "returned"
  /\ paPrev' = [none |-> FALSE, planets |-> paPlanets, patterns |-> paPatterns,
                year |-> clockYear]
  /\ paPlanets' \in Histories
  /\ paPc' = "call"
  /\ UNCHANGED <<modelLoaded, options, storeFails, cache, heap, calls, history, fn, spectro,
                 paPlanet, paScore, paPlan, timeWindowYears, trendSmoothing, clockYear,
                 paPatterns>>

\* New Year
ClockTicks ==
  /\ clockYear < LastClockYear
  /\ clockYear' = clockYear + 1
  /\ UNCHANGED <<modelLoaded, options, storeFails, cache, heap, calls, history, fn, spectro,
                 paPlanet, paPc, paScore, paPrev, paPlan, timeWindowYears, trendSmoothing,
                 paPlanets, paPatterns>>

NextPatterns == PatternsOnce \/ PatternsAgain \/ ClockTicks

SpecPatterns == InitPatterns /\ [][NextPatterns]_vars

\* C23: a call of analyzeDiscoveryPatterns returns what the call before it
\* returned when it is given the same planets.
C23_SameArgumentsSameResult ==
  (paPc = "returned" /\ ~paPrev.none /\ paPrev.planets = paPlanets)
    => paPatterns = paPrev.patterns

\* the level after the n-th count of the series, times 5^(n-1):
\* L(1) = count(1), L(n) = 0.4 * count(n) + 0.6 * L(n-1)
RECURSIVE LevelTimes(_, _)
LevelTimes(series, n) ==
  IF n = 0 THEN 0
  ELSE IF n = 1 THEN series[1].count
  ELSE 2 * series[n].count * 5^(n - 2) + 3 * LevelTimes(series, n - 1)

\* the series is the yearly counts of the last `window` years of the history
TrailingCounts(series, planets, window, clock) ==
  LET years == {YearOf(planets[i], clock) : i \in DOMAIN planets}
      kept == {series[i].year : i \in DOMAIN series}
  IN /\ Len(series) = Min(window, Cardinality(years))
     /\ kept \subseteq years
     /\ \A i \in DOMAIN series :
          series[i].count
            = Cardinality({j \in DOMAIN planets : YearOf(planets[j], clock) = series[i].year})
     /\ \A i \in 1..(Len(series) - 1) : series[i].year < series[i + 1].year
     /\ \A y \in years \ kept : \A i \in DOMAIN series : y < series[i].year

\* the forecasts are three, for the three years after the last of the series,
\* each the rounded level scaled by 1 + 0.03 k, and none below the one before
ForecastsAsStated(forecasts, series) ==
  /\ Len(forecasts) = 3
  /\ \A k \in 1..3 :
       /\ series # <<>> => forecasts[k].year = series[Len(series)].year + k
       /\ forecasts[k].predicted
            = (2 * LevelTimes(series, Len(series)) * (100 + 3 * k)
                 + 100 * 5^(Max(Len(series), 1) - 1))
              \div (2 * 100 * 5^(Max(Len(series), 1) - 1))
  /\ forecasts[1].predicted <= forecasts[2].predicted
  /\ forecasts[2].predicted <= forecasts[3].predicted

\* C28: what analyzeDiscoveryPatterns returns has, whatever trendSmoothing is,
\* a series of the yearly counts of the trailing timeWindowYears years and
\* exactly three forecasts, for the years last+1, last+2, last+3 after the
\* last year of the series, with predicted = round(L * (1 + 0.03 k)) for L
\* the exponentially smoothed (alpha = 0.4) level of the series seeded with
\* its first count; the predictions never decrease with k.
C28_ThreeForecasts ==
  [][(paPc = "call" /\ paPc' = "returned")
       => /\ TrailingCounts(paPatterns'.series, paPlanets, timeWindowYears, clockYear)
          /\ ForecastsAsStated(paPatterns'.forecasts, paPatterns'.series)]_vars
\* a history of two years of which the window keeps both, the level 1.4
\* giving 1, 1, 2, returned by an instance with trendSmoothing 0.9
C28_Witness ==
  /\ paPc = "returned"
  /\ trendSmoothing = 90
  /\ Len(paPatterns.series) = 2
  /\ paPatterns.forecasts[1].predicted < paPatterns.forecasts[3].predicted

\* ------------------------------------------- more properties of SpecSpectrum
\* the sum of the snr of the samples given, and their number
SnrSum == SumOver(LAMBDA q : q.snr, spSamples.pts)
SampleCount == Len(spSamples.pts)
\* the conditions of the five rules, avgSnr being SnrSum / SampleCount
RuleDisequilibrium == Present("O2") /\ Present("CH4")
RuleWater == Present("H2O") /\ (Present("CO2") \/ Present("N2"))
RuleSpecies == Len(spResult.detectedMolecules) >= 3 /\ SnrSum > 12 * SampleCount
RuleLowSnr == SnrSum < minSnrForDetection * SampleCount

\* C24: the verdict is that of the first rule that matches, in the order
\* O2 + CH4 (High), H2O + CO2 or N2 (Medium), three species with average
\* SNR above 12 (Medium), average SNR below minSnrForDetection (Low, low
\* S/N), otherwise Low with no clear pattern; the level is always one of
\* Low, Medium, High.
C24_FirstMatchingRule ==
  spPc = "returned"
    => /\ spResult.biosignaturePotential.level \in {"Low", "Medium", "High"}
       /\ HasData
            => /\ RuleDisequilibrium
                    => spResult.biosignaturePotential
                         = [level |-> "High", reason |-> "Possible disequilibrium (O2 + CH4)"]
               /\ (~RuleDisequilibrium /\ RuleWater)
                    => spResult.biosignaturePotential
                         = [level |-> "Medium",
                            reason |-> "Water + major background gas detected"]
               /\ (~RuleDisequilibrium /\ ~RuleWater /\ RuleSpecies)
                    => spResult.biosignaturePotential
                         = [level |-> "Medium", reason |-> "Multiple species with good S/N"]
               /\ (~RuleDisequilibrium /\ ~RuleWater /\ ~RuleSpecies /\ RuleLowSnr)
                    => spResult.biosignaturePotential
                         = [level |-> "Low", reason |-> "Low average S/N"]
               /\ (~RuleDisequilibrium /\ ~RuleWater /\ ~RuleSpecies /\ ~RuleLowSnr)
                    => spResult.biosignaturePotential
                         = [level |-> "Low", reason |-> "No clear biosignature pattern"]
\* the water rule and the rule for three species both match, and the water
\* rule gives the reason
C24_Witness ==
  /\ spPc = "returned" /\ HasData
  /\ ~RuleDisequilibrium /\ RuleWater /\ RuleSpecies
  /\ spResult.biosignaturePotential.reason = "Water + major background gas detected"

\* the sum of the confidences (thousandths) of the detected molecules
DetectedConfidenceSum == SumOver(LAMBDA d : d.confidence, spResult.detectedMolecules)
\* 0.2 * (avgSNR / 40) + 0.75 * (mean confidence of the detected molecules,
\* 0 for none), in units of 1e-6
ConfidenceBeforeClamp ==
  (SnrSum * 5000) \div SampleCount
  + (IF spResult.detectedMolecules = <<>> THEN 0
     ELSE (DetectedConfidenceSum * 750) \div Len(spResult.detectedMolecules))

\* C26: for a non-empty array of samples the confidence returned is
\* min(0.999, max(0.05, 0.2 * (avgSNR / 40) + 0.75 * mean confidence)) to
\* three decimals, so within [0.05, 0.999]; a confidence of 0 is returned
\* for no data only.
C26_ConfidenceClamped ==
  spPc = "returned"
    => /\ HasData
            => /\ spResult.confidence >= 50 /\ spResult.confidence <= 999
               /\ spResult.confidence
                    = DivRound(Min(999000, Max(50000, ConfidenceBeforeClamp)), 1000)
       /\ spResult.confidence = 0 => ~HasData
\* samples of SNR 5 with nothing detected: 0.025 before the clamp, 0.05 after
C26_Witness ==
  /\ spPc = "returned" /\ HasData
  /\ spResult.detectedMolecules = <<>>
  /\ ConfidenceBeforeClamp = 25000
  /\ spResult.confidence = 50

\* the recommendations returned contain the item
Recommends(item) ==
  \E i \in 1..Len(spResult.recommendations) : spResult.recommendations[i] = item

\* C27: every result of analyzeSpectrum recommends the reference stars, and
\* besides the longer exposure when the average SNR is below 10, the
\* multi-epoch follow-up when the level is High, and the space-based
\* instruments when the planet is more than 500 away.
C27_AlwaysReferenceStars ==
  spPc = "returned"
    => /\ Recommends("Observe reference stars to remove telluric features.")
       /\ (HasData /\ SnrSum < 10 * SampleCount)
            => Recommends("Increase exposure time to reach avg S/N > 15 or co-add more transits.")
       /\ spResult.biosignaturePotential.level = "High"
            => Recommends("Immediate multi-epoch high-resolution follow-up.")
       /\ (HasData /\ spPlanet = EarthTwin)
            => Recommends("Use space-based instruments (JWST) for highest sensitivity.")

\* the entry of _matchTemplates for the molecule at position mol, computed
\* from the normalized data returned
MatchOf(mol) == MatchMolecule(spResult.normalizedData, mol, minSnrForDetection)
\* the mean SNR of the windows of a detected molecule is below minSnrForDetection
Halved(d) ==
  SumOver(LAMBDA r : r.meanSnr, d.windows) < minSnrForDetection * 100 * Len(d.windows)

\* C29: every detected molecule has a detected window and a confidence of at
\* least 0.332 = tanh(0.8) / 2, above 0.25; every molecule with a detected
\* window is among the detected molecules and counts as present; a molecule
\* without a detected window is neither, whatever its confidence.
C29_DetectedMeansPresent ==
  (spPc = "returned" /\ HasData)
    => /\ \A i \in 1..Len(spResult.detectedMolecules) :
            /\ spResult.detectedMolecules[i].confidence >= 332
            /\ \E k \in 1..Len(spResult.detectedMolecules[i].windows) :
                 spResult.detectedMolecules[i].windows[k].detected
       /\ \A mol \in 1..NMolecules :
            /\ spResult.moleculeConfidences[mol] = MatchOf(mol).confidence
            /\ MatchOf(mol).detected <=> Present(MoleculeNames[mol])
            /\ MatchOf(mol).detected
                 <=> \E i \in 1..Len(spResult.detectedMolecules) :
                       spResult.detectedMolecules[i].molecule = MoleculeNames[mol]
\* CH4 is detected with its confidence halved for a low mean SNR, and O2,
\* with no detected window and a confidence above 0.25, is not
C29_Witness ==
  /\ spPc = "returned" /\ HasData
  /\ \E i \in 1..Len(spResult.detectedMolecules) :
       /\ spResult.detectedMolecules[i].molecule = "CH4"
       /\ Halved(spResult.detectedMolecules[i])
  /\ spResult.moleculeConfidences[4] > 250
  /\ ~MatchOf(4).detected
  /\ ~Present("O2")

\* ---------------------------------------------------- _detectInRange alone
\* A normalized point, as _normalize returns it on a continuum of 1.
NormPoint(w, norm, snr) ==
  [wavelength |-> w, intensity |-> norm, snr |-> snr, continuum |-> Micro,
   intensity_norm |-> norm]
\* the range of SpecDetect, the first window of H2O
DetectRange == MoleculeWindows[1][1]
\* points in the range at 595 and 596 nm and one outside it, with
\* intensity_norm 1.0, 0.99, 0.97 or 0.5 and an snr around minSnrForDetection
DetectPoints ==
  {NormPoint(w, norm, snr) :
     w \in {595, 596, 700}, norm \in {Micro, 990000, 970000, Micro \div 2}, snr \in {7, 8, 9}}
\* n points half a window apart around 590 nm, the first of them a dip
SparseDip(n) ==
  [i \in 1..n |-> NormPoint(590 + i \div 2, IF i = 1 THEN Micro \div 2 ELSE Micro, 9)]
\* the normData arguments: up to two of the points, and 16 and 17 points
\* with one dip
DetectData ==
  {<<>>} \cup {<<p>> : p \in DetectPoints} \cup {<<p, q>> : p \in DetectPoints, q \in DetectPoints}
  \cup {SparseDip(16), SparseDip(17)}

InitDetect ==
  /\ Constructed
  /\ calibration = DefaultCalibration
  /\ FnIdle
  /\ minSnrForDetection = DefaultMinSnr
  /\ smoothingWindow = DefaultSmoothingWindow
  /\ spSamples \in {Arr(pts) : pts \in DetectData}
  /\ spPlanet = EmptyPlanet
  /\ spPc = "idle"
  /\ spResult = NoResult
  /\ AnalyticsIdle
  /\ StoreWorks

\* this._detectInRange(spSamples, minW, maxW)
DetectOnce ==
  /\ spPc = "idle"
  /\ spPc' = "returned"
  /\ spResult' = DetectInRange(spSamples.pts, DetectRange[1], DetectRange[2],
                               minSnrForDetection)
  /\ UNCHANGED <<modelLoaded, options, storeFails, cache, heap, calls, history, fn,
                 minSnrForDetection, smoothingWindow, spSamples, spPlanet, analytics>>

NextDetect == DetectOnce

SpecDetect == InitDetect /\ [][NextDetect]_vars

\* the positions of the samples within the range
InWindow ==
  {i \in DOMAIN spSamples.pts :
     /\ spSamples.pts[i].wavelength >= DetectRange[1]
     /\ spSamples.pts[i].wavelength <= DetectRange[2]}
\* the sum of the snr of the samples within the range
WindowSnrSum ==
  SumOver(LAMBDA q : IF q.wavelength >= DetectRange[1] /\ q.wavelength <= DetectRange[2]
                     THEN q.snr ELSE 0,
          spSamples.pts)
\* the number of samples within the range with intensity_norm < 0.98
Absorbing == Cardinality({i \in InWindow : spSamples.pts[i].intensity_norm < 980000})

\* C25: a window with samples is detected exactly when its mean SNR is at
\* least minSnrForDetection, its equivalent width is above 0.01 and more than
\* 6 % of its samples have intensity_norm < 0.98; the equivalent width is
\* never negative and is 0 for fewer than two samples, so a window of one
\* sample is never detected.
C25_DetectedIffThree ==
  (spPc = "returned" /\ InWindow # {})
    => /\ spResult.points = Cardinality(InWindow)
       /\ spResult.detected
            <=> /\ WindowSnrSum >= minSnrForDetection * Cardinality(InWindow)
                /\ spResult.ew > 100
                /\ 100 * Absorbing > 6 * Cardinality(InWindow)
       /\ spResult.ew >= 0
       /\ Cardinality(InWindow) < 2 => (spResult.ew = 0 /\ ~spResult.detected)
\* a window of one sample that dips to 0.5 at an snr of 9 is not detected
C25_Witness ==
  /\ spPc = "returned"
  /\ Cardinality(InWindow) = 1
  /\ Absorbing = 1
  /\ WindowSnrSum = 9
  /\ spResult.ew = 0
  /\ ~spResult.detected

\* ------------------------------------------------ more properties of Spec
\* the classifyPlanet body x built its result before the latest clearCache
\* and is still in its 25 ms delay
InFlightOverClear(x) == Item(x).pc = "delay" /\ Item(x).at < epoch

\* C30: the cache holds only results computed since the latest clearCache;
\* a classifyPlanet that leaves its 25 ms delay writes nothing to the cache
\* and returns the result object it had built, unchanged; and every result
\* found in the cache was built by a call that started after the same
\* clearCache, so the first call for a fingerprint after a clear recomputes.
C30_ClearWhileInFlight ==
  /\ [](/\ \A key \in DOMAIN cache : origin[cache[key]].epoch = epoch
        /\ \A y \in ItemIds :
             Item(y).hit => \E x \in ItemIds : /\ ~Item(x).hit
                                               /\ Item(x).ret = Item(y).ret
                                               /\ Item(x).at = Item(y).at)
  /\ [][\A c \in 1..Len(calls) : \A i \in 1..Len(calls[c].items) :
          (calls[c].items[i].pc = "delay" /\ calls'[c].items[i].pc # "delay")
            => /\ cache' = cache
               /\ calls'[c].items[i].pc = "done"
               /\ calls'[c].items[i].ret = calls[c].items[i].ret
               /\ heap'[calls[c].items[i].ret] = heap[calls[c].items[i].ret]]_vars
\* a call is still in its delay after the clearCache, and a later call with
\* its fingerprint has computed a result of its own and returned it
C30_Witness ==
  \E x \in ItemIds : \E y \in ItemIds :
    /\ InFlightOverClear(x)
    /\ ItemKey(y) = ItemKey(x)
    /\ Item(y).at = epoch /\ ~Item(y).hit /\ Item(y).pc = "done"
    /\ Item(y).ret # Item(x).ret
    /\ cache[ItemKey(x)] = Item(y).ret

====
